---------------------------- MODULE Spec2Model ----------------------------
(***************************************************************************)
(* A model of the evaluation harness of llm-evals:                         *)
(*   - batch_eval (src/evals/core.py): a bounded thread pool runs num_runs *)
(*     trials, the main thread collects them as they complete, aggregates  *)
(*     the scores and optionally saves one record;                         *)
(*   - Eval.run (src/evals/core.py): the turn loop of one trial.           *)
(*                                                                         *)
(* Scores are the task scores 0.0, 0.5 and 1.0, held as integers in units  *)
(* of one half (0, 1, 2).  Means and medians are exact rationals <<n, d>>. *)
(* A string that the code splits is a sequence of one-character strings.   *)
(* A Python Optional value is a sequence of length at most one.            *)
(***************************************************************************)
EXTENDS Integers, Sequences, FiniteSets, TLC

VARIABLES
    \* ---- batch_eval: arguments
    num_runs,        \* num_runs
    max_workers,     \* max_workers
    save_results,    \* save_results
    factory_model,   \* the model the eval factory builds its Assistant with
    \* ---- batch_eval: the executor and its futures
    submitted,       \* how many tasks the dict comprehension has submitted
    phase,           \* per trial: where run_single_eval(i) is
    ret,             \* per trial: the tuple run_single_eval(i) returned
    factory_calls,   \* per seed: how often eval_factory was called with it
    eval_score,      \* per trial: <<s>> once evaluate() returned s
    raised,          \* per trial: whether a call inside run_single_eval(i) raised
    \* ---- batch_eval: the main thread
    pc,              \* position of the main thread in batch_eval
    collected,       \* futures as_completed has yielded
    results,         \* results
    failed_runs,     \* failed_runs
    model_name,      \* model_name (Optional)
    eval_name,       \* eval_name (Optional)
    notice,          \* which message lines 178-197 printed
    stats,           \* stats (Optional)
    saved,           \* rows EvalResult.save() has written
    save_calls,      \* calls of EvalResult.save()
    outcome,         \* how batch_eval ended: returned dict or raised error
    \* ---- Eval.run: one trial
    e_pc,            \* position in Eval.run
    turn,            \* the loop variable i of "for i in range(self.max_turns)"
    current,         \* current: the agent whose turn it is
    response,        \* response (Optional)
    chat_history,    \* self.chat_history
    score,           \* score (Optional)
    broke,           \* whether the loop was left by "break"
    respond_calls,   \* calls of current.respond()
    evaluate_calls,  \* calls of self.evaluate()
    messages,        \* self.assistant.messages: the fixed preamble of the Assistant
    exc,             \* the exception that has left run() (Optional)
    thrown,          \* the exception a call made by run() has raised (Optional)
    \* ---- state of the process, outside any one batch or trial
    TIMES,           \* core.TIMES, each entry as the trial whose thread appended it
    \* ---- registry.py
    EVALS,           \* registry.EVALS: name -> configuration
    cf_result,       \* how the last create_eval_factory(...) ended
    call,            \* the last call a returned eval_factory made (Optional)
    \* ---- cli.py: one invocation of the command line
    cli_cmd,         \* the command: "run" or "debug"
    eval_list,       \* eval_list (for debug: the one eval_name)
    model_list,      \* model_list (for debug: the one model)
    cli_max_workers, \* max_workers of the command line (Optional)
    cli_pc,          \* position in the command
    ei,              \* position of the outer loop in eval_list
    mi,              \* position of the inner loop in model_list
    invocations,     \* the (eval, model) pairs batch_eval was called for, in order
    failed_combinations, \* failed_combinations
    banner,          \* the banner at the end of run
    exit_code,       \* the argument of exit(), once called (Optional)
    factories_created, \* calls of create_eval_factory by the command
    cli_trials,      \* trials the command has started outside batch_eval
    \* ---- debug_eval: one invocation
    dbg_pc,          \* position in debug_eval
    dbg_seed,        \* seed
    dbg_factory_calls, \* the seeds eval_factory was called with, in order
    dbg_result,      \* the returned dictionary (Optional)
    \* ---- trials of the registered evaluations, built by one factory
    s_task,          \* the evaluation: "math" or "tictactoe_random"
    s_stub,          \* the deterministic stub that stands for completion()
    gens,            \* per generator object: its state
    trials,          \* per Eval instance: its seed, position, game, transcript, score
    \* ---- one tic-tac-toe trial against any opponent moves and any replies
    game,            \* its position, board, first message, last reply, outcome
    \* ---- MathEval.evaluate applied to one problem and one last message
    marking,         \* the problem, the reply, the score returned
    \* ---- one call of batch_completion
    bc               \* its message lists, the loop position, the results so far

registry_vars == <<EVALS, cf_result, call>>

cli_vars == <<cli_cmd, eval_list, model_list, cli_max_workers, cli_pc, ei, mi,
              invocations, failed_combinations, banner, exit_code,
              factories_created, cli_trials>>

debug_vars == <<dbg_pc, dbg_seed, dbg_factory_calls, dbg_result>>

seeded_vars == <<s_task, s_stub, gens, trials, game, marking, bc>>

aux_vars == <<TIMES, registry_vars, cli_vars, debug_vars, seeded_vars>>

batch_vars == <<aux_vars, num_runs, max_workers, save_results, factory_model, submitted,
                phase, ret, factory_calls, eval_score, raised, pc, collected, results,
                failed_runs, model_name, eval_name, notice, stats, saved,
                save_calls, outcome>>

eval_vars == <<e_pc, turn, current, response, chat_history, score, broke,
               respond_calls, evaluate_calls, messages, exc, thrown>>

vars == <<batch_vars, eval_vars>>

-----------------------------------------------------------------------------
(* Bounds of the model *)

MaxRuns == 3
MaxWorkers == 2
(* The largest batch of the specification that starts after the collection *)
MaxAggRuns == 12

(* The scores an evaluate() can return, in halves: 0.0, 0.5, 1.0 *)
Scores == {0, 1, 2}

(* Model identifiers: "a/b" (provider and model) and "c" (no provider) *)
ModelIds == {<<"a", "/", "b">>, <<"c">>}

EVAL_NAME == "math_eval"

None == << >>
Some(x) == <<x>>

-----------------------------------------------------------------------------
(* Sequence helpers *)

RECURSIVE SumSeq(_)
SumSeq(s) == IF s = << >> THEN 0 ELSE Head(s) + SumSeq(Tail(s))

RECURSIVE MinSeq(_)
MinSeq(s) == IF Len(s) = 1 THEN s[1]
             ELSE LET m == MinSeq(Tail(s)) IN IF s[1] < m THEN s[1] ELSE m

RECURSIVE MaxSeq(_)
MaxSeq(s) == IF Len(s) = 1 THEN s[1]
             ELSE LET m == MaxSeq(Tail(s)) IN IF s[1] > m THEN s[1] ELSE m

RECURSIVE Insert(_, _)
Insert(x, s) == IF s = << >> THEN <<x>>
                ELSE IF x <= Head(s) THEN <<x>> \o s
                ELSE <<Head(s)>> \o Insert(x, Tail(s))

RECURSIVE Sorted(_)
Sorted(s) == IF s = << >> THEN << >> ELSE Insert(Head(s), Sorted(Tail(s)))

(* Equality of the rationals a[1]/a[2] and b[1]/b[2] *)
RatEq(a, b) == a[1] * b[2] = b[1] * a[2]

-----------------------------------------------------------------------------
(* batch_eval: the trials.  run_single_eval(i) runs on a pool thread:      *)
(* eval_factory(i), then eval_instance.run() (the turn loop, then          *)
(* evaluate()), with every Exception turned into the failure tuple.        *)

Idx == 0 .. (num_runs - 1)

Executing == {i \in Idx : phase[i] \in {"factory", "run", "evaluate"}}
Queued == {i \in Idx : phase[i] = "queued"}

(* core.py:134, return 0.0, "", "", False *)
FailureTuple == [score |-> 0, m_name |-> << >>, e_name |-> "", success |-> FALSE]

(* core.py:129, return score, eval_instance.assistant.model, eval_instance.name, True *)
SuccessTuple(s) ==
    [score |-> s, m_name |-> factory_model, e_name |-> EVAL_NAME, success |-> TRUE]

main_vars == <<pc, collected, results, failed_runs, model_name, eval_name,
               notice, stats, saved, save_calls, outcome>>
(* What no step of batch_eval changes: its arguments, and the variables of *)
(* the single-trial model of Eval.run below                                *)
arg_vars == <<num_runs, max_workers, save_results, factory_model, eval_vars, aux_vars>>

(* executor.submit(run_single_eval, i) for i in range(num_runs) *)
Submit ==
    /\ pc = "submit"
    /\ submitted < num_runs
    /\ phase' = [phase EXCEPT ![submitted] = "queued"]
    /\ submitted' = submitted + 1
    /\ UNCHANGED <<arg_vars, ret, factory_calls, eval_score, raised, main_vars>>

(* Faulty variant of WorkerFree: a pool that starts a thread for every task *)
WorkerFreeAlways == TRUE

(* A pool thread may take a task when fewer than max_workers are busy *)
WorkerFree == Cardinality(Executing) < max_workers

(* A pool thread takes the oldest queued task and enters run_single_eval *)
StartTrial(i) ==
    /\ phase[i] = "queued"
    /\ \A j \in Queued : i <= j
    /\ WorkerFree
    /\ phase' = [phase EXCEPT ![i] = "factory"]
    /\ UNCHANGED <<arg_vars, submitted, ret, factory_calls, eval_score, raised, main_vars>>

(* What a trial that raised becomes: the except branch returns the failure *)
(* tuple and the task is over                                              *)
TrialFails(i) ==
    /\ phase' = [phase EXCEPT ![i] = "returned"]
    /\ ret' = [ret EXCEPT ![i] = FailureTuple]

(* Faulty variant of SeedOf: every trial is built from seed 0 *)
SeedFixed(i) == 0

(* core.py:125, eval_factory(i): the seed handed to the factory by trial i *)
SeedOf(i) == i

(* eval_instance = eval_factory(i) returns *)
FactoryReturns(i) ==
    /\ phase[i] = "factory"
    /\ factory_calls' = [factory_calls EXCEPT ![SeedOf(i)] = @ + 1]
    /\ phase' = [phase EXCEPT ![i] = "run"]
    /\ UNCHANGED <<arg_vars, submitted, ret, eval_score, raised, main_vars>>

(* eval_factory(i) raises *)
FactoryRaises(i) ==
    /\ phase[i] = "factory"
    /\ factory_calls' = [factory_calls EXCEPT ![SeedOf(i)] = @ + 1]
    /\ TrialFails(i)
    /\ raised' = [raised EXCEPT ![i] = TRUE]
    /\ UNCHANGED <<arg_vars, submitted, eval_score, main_vars>>

(* eval_instance.run(): a respond() raises during the turn loop *)
RunRaises(i) ==
    /\ phase[i] = "run"
    /\ TrialFails(i)
    /\ raised' = [raised EXCEPT ![i] = TRUE]
    /\ UNCHANGED <<arg_vars, submitted, factory_calls, eval_score, main_vars>>

(* eval_instance.run(): the turn loop ends and evaluate() is entered *)
RunLoopEnds(i) ==
    /\ phase[i] = "run"
    /\ phase' = [phase EXCEPT ![i] = "evaluate"]
    /\ UNCHANGED <<arg_vars, submitted, ret, factory_calls, eval_score, raised, main_vars>>

(* evaluate() returns s; run() returns it and run_single_eval succeeds *)
EvaluateReturns(i, s) ==
    /\ phase[i] = "evaluate"
    /\ eval_score' = [eval_score EXCEPT ![i] = Some(s)]
    /\ ret' = [ret EXCEPT ![i] = SuccessTuple(s)]
    /\ phase' = [phase EXCEPT ![i] = "returned"]
    /\ UNCHANGED <<arg_vars, submitted, factory_calls, raised, main_vars>>

(* evaluate() raises *)
EvaluateRaises(i) ==
    /\ phase[i] = "evaluate"
    /\ TrialFails(i)
    /\ raised' = [raised EXCEPT ![i] = TRUE]
    /\ UNCHANGED <<arg_vars, submitted, factory_calls, eval_score, main_vars>>

trial_vars == <<submitted, phase, ret, factory_calls, eval_score, raised>>

-----------------------------------------------------------------------------
(* batch_eval: the main thread *)

(* The dict comprehension is complete: the as_completed loop begins *)
BeginCollect ==
    /\ pc = "submit"
    /\ submitted = num_runs
    /\ pc' = "collect"
    /\ UNCHANGED <<arg_vars, trial_vars, collected, results, failed_runs,
                   model_name, eval_name, notice, stats, saved, save_calls, outcome>>

(* Faulty variant of ResultsWith: the score of the tuple is kept whether or *)
(* not the trial succeeded, so a failure counts as its placeholder 0.0     *)
ResultsWithPlaceholder(r) == Append(results, r.score)

(* results after the loop body has handled the tuple r (core.py:157-158) *)
ResultsWith(r) == IF r.success THEN Append(results, r.score) ELSE results

(* Faulty variant of FailedWith: the position in completion order is       *)
(* recorded instead of future_to_index[future]                             *)
FailedWithPosition(r, i) ==
    IF r.success THEN failed_runs ELSE Append(failed_runs, Cardinality(collected))

(* failed_runs after the loop body has handled the tuple r of run i (core.py:162-163) *)
FailedWith(r, i) == IF r.success THEN failed_runs ELSE Append(failed_runs, i)

(* model_name after the loop body has handled the tuple r (core.py:159-160) *)
ModelNameWith(r) ==
    IF r.success /\ model_name = None THEN Some(r.m_name) ELSE model_name

(* eval_name after the loop body has handled the tuple r (core.py:159-161) *)
EvalNameWith(r) ==
    IF r.success /\ model_name = None THEN Some(r.e_name) ELSE eval_name

(* One iteration of "for future in as_completed(future_to_index)": a       *)
(* finished future that was not yet yielded is yielded and handled.        *)
(* run_single_eval catches every Exception, so future.result() returns.    *)
Collect(i) ==
    /\ pc = "collect"
    /\ phase[i] = "returned"
    /\ i \notin collected
    /\ collected' = collected \cup {i}
    /\ results' = ResultsWith(ret[i])
    /\ failed_runs' = FailedWith(ret[i], i)
    /\ model_name' = ModelNameWith(ret[i])
    /\ eval_name' = EvalNameWith(ret[i])
    /\ UNCHANGED <<arg_vars, trial_vars, pc, notice, stats, saved, save_calls, outcome>>

(* Every future was yielded: the loop and the with-block are left *)
EndCollect ==
    /\ pc = "collect"
    /\ collected = Idx
    /\ pc' = "check"
    /\ UNCHANGED <<arg_vars, trial_vars, collected, results, failed_runs,
                   model_name, eval_name, notice, stats, saved, save_calls, outcome>>

(* success_rate = len(results) / num_runs if num_runs > 0 else 0, as <<n, d>> *)
SuccessRate(n, total) == IF total > 0 THEN <<n, total>> ELSE <<0, 1>>

(* Faulty variant of BelowTenth: a rate of exactly 10% counts as low *)
BelowTenthInclusive(rate) == 10 * rate[1] <= rate[2]

(* success_rate < 0.1: n/d < 1/10.  The float quotient of two small        *)
(* integers is below the float 0.1 exactly when the rational is below 1/10 *)
BelowTenth(rate) == 10 * rate[1] < rate[2]

(* The message of the ValueError of core.py:180-185, by its parts *)
ErrorMsg(failed, total) ==
    [num_runs |-> total,
     failed_runs |-> IF failed # << >> THEN Some(failed) ELSE None,
     all_failed |-> (Len(failed) = total)]

(* Faulty variant of Branch: the error is raised only when a run failed,   *)
(* a batch that ran nothing goes on to the statistics                      *)
BranchEmptyGoesOn(res, failed, total) ==
    IF res = << >> /\ failed # << >> THEN "raise"
    ELSE IF BelowTenth(SuccessRate(Len(res), total)) /\ total > 1 THEN "low_success_warning"
    ELSE IF failed # << >> /\ Len(failed) > 0 THEN "some_failed_info"
    ELSE "none"

(* Faulty variant of Branch: a batch whose trials all failed only warns;   *)
(* the error is kept for the batch that ran nothing                        *)
BranchWarnOnly(res, failed, total) ==
    IF res = << >> /\ failed = << >> THEN "raise"
    ELSE IF BelowTenth(SuccessRate(Len(res), total)) /\ total > 1 THEN "low_success_warning"
    ELSE IF failed # << >> /\ Len(failed) > 0 THEN "some_failed_info"
    ELSE "none"

(* Which branch of core.py:178-197 is taken *)
Branch(res, failed, total) ==
    IF res = << >> THEN "raise"
    ELSE IF BelowTenth(SuccessRate(Len(res), total)) /\ total > 1 THEN "low_success_warning"
    ELSE IF failed # << >> /\ Len(failed) > 0 THEN "some_failed_info"
    ELSE "none"

(* core.py:175-197: the check of the collected results *)
Check ==
    /\ pc = "check"
    /\ LET b == Branch(results, failed_runs, num_runs) IN
         IF b = "raise"
         THEN /\ pc' = "raised"
              /\ outcome' = [kind |-> "ValueError",
                             msg |-> Some(ErrorMsg(failed_runs, num_runs)),
                             value |-> None]
              /\ notice' = notice
         ELSE /\ pc' = "stats"
              /\ notice' = b
              /\ outcome' = outcome
    /\ UNCHANGED <<arg_vars, trial_vars, collected, results, failed_runs,
                   model_name, eval_name, stats, saved, save_calls>>

(* np.mean as the exact rational sum / count *)
Mean(s) == <<SumSeq(s), Len(s)>>

(* Faulty variant of Median: the middle of the values as they were         *)
(* collected, without sorting them                                         *)
MedianUnsorted(s) ==
    LET n == Len(s)
    IN IF n % 2 = 1 THEN <<s[(n + 1) \div 2], 1>>
       ELSE <<s[n \div 2] + s[n \div 2 + 1], 2>>

(* np.median: the middle of the sorted values, or the mean of the two middle ones *)
Median(s) ==
    LET t == Sorted(s)
        n == Len(s)
    IN IF n % 2 = 1 THEN <<t[(n + 1) \div 2], 1>>
       ELSE <<t[n \div 2] + t[n \div 2 + 1], 2>>

(* Faulty variant of Stats: the total is counted from the scores collected *)
StatsTotalFromScores(res, failed, total) ==
    [mean |-> Mean(res),
     min |-> MinSeq(res),
     max |-> MaxSeq(res),
     median |-> Median(res),
     successful_runs |-> Len(res),
     failed_runs |-> Len(failed),
     total_runs |-> Len(res),
     success_rate |-> <<Len(res), Len(res)>>]

(* core.py:199-211: stats (std is left out: no statement is about it) *)
Stats(res, failed, total) ==
    [mean |-> Mean(res),
     min |-> MinSeq(res),
     max |-> MaxSeq(res),
     median |-> Median(res),
     successful_runs |-> Len(res),
     failed_runs |-> Len(failed),
     total_runs |-> total,
     success_rate |-> <<Len(res), total>>]

ComputeStats ==
    /\ pc = "stats"
    /\ stats' = Some(Stats(results, failed_runs, num_runs))
    /\ pc' = "save"
    /\ UNCHANGED <<arg_vars, trial_vars, collected, results, failed_runs,
                   model_name, eval_name, notice, saved, save_calls, outcome>>

(* Python truth of an Optional string held as a sequence of characters *)
Truthy(opt) == opt # None /\ opt[1] # << >>

(* Python truth of an Optional string held as a TLA+ string *)
TruthyName(opt) == opt # None /\ opt[1] # ""

(* "/" in name *)
HasSlash(name) == \E k \in 1 .. Len(name) : name[k] = "/"

(* The index of the first "/" of name *)
FirstSlash(name) ==
    CHOOSE k \in 1 .. Len(name) : name[k] = "/" /\ \A j \in 1 .. (k - 1) : name[j] # "/"

(* core.py:227-232: provider and model of a model name *)
SplitModel(name) ==
    IF HasSlash(name)
    THEN [provider |-> SubSeq(name, 1, FirstSlash(name) - 1),
          model |-> SubSeq(name, FirstSlash(name) + 1, Len(name))]
    ELSE [provider |-> <<"u", "n", "k", "n", "o", "w", "n">>, model |-> name]

(* core.py:234-240: the record handed to EvalResult *)
EvalResultRow(name, ename, st) ==
    [provider |-> SplitModel(name).provider,
     model |-> SplitModel(name).model,
     eval_name |-> ename,
     result |-> st.mean,
     runs |-> st.successful_runs]

(* db.py:11-19: the fields of EvalResult; timestamp, which defaults to the   *)
(* time of the save, is left out                                           *)
EvalResultFields == {"model_name", "eval_name", "result", "runs"}

(* What save() writes for the keywords kw handed to EvalResult(...): the   *)
(* model keeps a keyword that names no field as a plain attribute, and     *)
(* the row holds the fields only, a field never given being absent         *)
StoredRow(kw) ==
    [f \in EvalResultFields |-> IF f \in DOMAIN kw THEN Some(kw[f]) ELSE None]

(* core.py:224: if save_results and model_name and eval_name *)
SaveWanted == save_results /\ Truthy(model_name) /\ TruthyName(eval_name)

(* The save is not asked for: nothing is written *)
SaveSkipped ==
    /\ pc = "save"
    /\ ~SaveWanted
    /\ pc' = "return"
    /\ UNCHANGED <<arg_vars, trial_vars, collected, results, failed_runs,
                   model_name, eval_name, notice, stats, saved, save_calls, outcome>>

(* EvalResult(...).save() writes the row *)
SaveSucceeds ==
    /\ pc = "save"
    /\ SaveWanted
    /\ saved' = Append(saved, StoredRow(EvalResultRow(model_name[1], eval_name[1], stats[1])))
    /\ save_calls' = save_calls + 1
    /\ pc' = "return"
    /\ UNCHANGED <<arg_vars, trial_vars, collected, results, failed_runs,
                   model_name, eval_name, notice, stats, outcome>>

(* EvalResult(...).save() raises (the store is unreachable, the row is     *)
(* refused).  Nothing in core.py:223-243 catches it: it leaves batch_eval. *)
SaveRaises ==
    /\ pc = "save"
    /\ SaveWanted
    /\ save_calls' = save_calls + 1
    /\ pc' = "raised"
    /\ outcome' = [kind |-> "save_error", msg |-> None, value |-> None]
    /\ UNCHANGED <<arg_vars, trial_vars, collected, results, failed_runs,
                   model_name, eval_name, notice, stats, saved>>

(* core.py:245-251: the returned dictionary *)
ReturnValue ==
    [scores |-> results,
     statistics |-> stats[1],
     model_name |-> model_name,
     eval_name |-> eval_name,
     failed_runs |-> failed_runs]

Return ==
    /\ pc = "return"
    /\ outcome' = [kind |-> "returned", msg |-> None, value |-> Some(ReturnValue)]
    /\ pc' = "done"
    /\ UNCHANGED <<arg_vars, trial_vars, collected, results, failed_runs,
                   model_name, eval_name, notice, stats, saved, save_calls>>

-----------------------------------------------------------------------------
(* The batch: one invocation of batch_eval *)

(* The state of the process in a fresh interpreter: core.py:25, TIMES = [] *)
TimesIdle == TIMES = << >>

(* No create_eval_factory has been called *)
NoFactory ==
    [kind |-> "none", name |-> "", model |-> << >>, overrides |-> << >>,
     factory |-> None, params |-> None, defaults |-> None]

(* The registry before any import registers an evaluation (registry.py:8) *)
RegistryIdle ==
    /\ EVALS = << >>
    /\ cf_result = NoFactory
    /\ call = None

(* No command of cli.py is running *)
CliIdle ==
    /\ cli_cmd = "none"
    /\ eval_list = << >>
    /\ model_list = << >>
    /\ cli_max_workers = None
    /\ cli_pc = "idle"
    /\ ei = 0
    /\ mi = 0
    /\ invocations = << >>
    /\ failed_combinations = << >>
    /\ banner = "none"
    /\ exit_code = None
    /\ factories_created = 0
    /\ cli_trials = 0

(* No debug_eval is running *)
DebugIdle ==
    /\ dbg_pc = "idle"
    /\ dbg_seed = 0
    /\ dbg_factory_calls = << >>
    /\ dbg_result = None

(* No trial of a registered evaluation is looked at *)
SeededIdle ==
    /\ s_task = "none"
    /\ s_stub = "none"
    /\ gens = << >>
    /\ trials = << >>
    /\ game = << >>
    /\ marking = << >>
    /\ bc = << >>

AuxIdle ==
    /\ TimesIdle
    /\ RegistryIdle
    /\ CliIdle
    /\ DebugIdle
    /\ SeededIdle

(* The single-trial variables while only the batch is looked at *)
EvalIdle ==
    /\ e_pc = "idle"
    /\ turn = -1
    /\ current = "user"
    /\ response = None
    /\ chat_history = << >>
    /\ score = None
    /\ broke = FALSE
    /\ respond_calls = 0
    /\ evaluate_calls = 0
    /\ messages = << >>
    /\ exc = None
    /\ thrown = None

(* batch_eval is entered *)
BatchInit ==
    /\ num_runs \in 0 .. MaxRuns
    /\ max_workers \in 1 .. MaxWorkers
    /\ save_results \in BOOLEAN
    /\ factory_model \in ModelIds
    /\ submitted = 0
    /\ phase = [i \in Idx |-> "unsubmitted"]
    /\ ret = [i \in Idx |-> FailureTuple]
    /\ factory_calls = [i \in Idx |-> 0]
    /\ eval_score = [i \in Idx |-> None]
    /\ raised = [i \in Idx |-> FALSE]
    /\ pc = "submit"
    /\ collected = {}
    /\ results = << >>
    /\ failed_runs = << >>
    /\ model_name = None
    /\ eval_name = None
    /\ notice = "none"
    /\ stats = None
    /\ saved = << >>
    /\ save_calls = 0
    /\ outcome = [kind |-> "none", msg |-> None, value |-> None]

Init ==
    /\ BatchInit
    /\ EvalIdle
    /\ AuxIdle

Next ==
    \/ Submit
    \/ \E i \in Idx : StartTrial(i)
    \/ \E i \in Idx : FactoryReturns(i)
    \/ \E i \in Idx : FactoryRaises(i)
    \/ \E i \in Idx : RunRaises(i)
    \/ \E i \in Idx : RunLoopEnds(i)
    \/ \E i \in Idx, s \in Scores : EvaluateReturns(i, s)
    \/ \E i \in Idx : EvaluateRaises(i)
    \/ BeginCollect
    \/ \E i \in Idx : Collect(i)
    \/ EndCollect
    \/ Check
    \/ ComputeStats
    \/ SaveSkipped
    \/ SaveSucceeds
    \/ SaveRaises
    \/ Return

Spec == Init /\ [][Next]_vars

-----------------------------------------------------------------------------
(* Properties of batch_eval *)

Range(s) == {s[k] : k \in 1 .. Len(s)}

(* The trials in which a call raised, and those whose evaluate() returned *)
Raising == {i \in Idx : raised[i]}
Succeeded == {i \in Idx : phase[i] = "returned" /\ ~raised[i]}

(* The scores evaluate() returned to the successful trials, by trial index *)
RECURSIVE ScoresUpTo(_)
ScoresUpTo(n) ==
    IF n = 0 THEN << >>
    ELSE IF (n - 1) \in Succeeded
         THEN Append(ScoresUpTo(n - 1), eval_score[n - 1][1])
         ELSE ScoresUpTo(n - 1)
SucceededScores == ScoresUpTo(num_runs)

Returned == outcome.kind = "returned"
PastCheck == pc \in {"stats", "save", "return", "done", "raised"}

(* C1: per-trial isolation.  When batch_eval returns for a batch of        *)
(* num_runs trials of which K raised (in the factory, in run or in         *)
(* evaluate), statistics.successful_runs = num_runs - K and failed_runs    *)
(* holds exactly the K indices of the raising trials, each once; the       *)
(* batch is given up with the ValueError only when every trial raised.     *)
C1_Isolation ==
    /\ Returned =>
         /\ outcome.value[1].statistics.successful_runs = num_runs - Cardinality(Raising)
         /\ Len(outcome.value[1].failed_runs) = Cardinality(Raising)
         /\ Range(outcome.value[1].failed_runs) = Raising
         /\ (Raising = {} =>
               /\ outcome.value[1].statistics.successful_runs = num_runs
               /\ outcome.value[1].failed_runs = << >>)
    /\ outcome.kind = "ValueError" => Raising = Idx

(* A batch of three that returned although exactly the middle trial raised *)
C1_Witness ==
    /\ Returned
    /\ num_runs = 3
    /\ Raising = {1}
    /\ outcome.value[1].statistics.successful_runs = 2

(* C2: zero-success fails hard.  When every trial of a batch failed,       *)
(* batch_eval raises the ValueError, whose message names the failed        *)
(* indices; no statistics exist, nothing is returned and save() is never   *)
(* called, whatever save_results is.                                       *)
C2_ZeroSuccessFailsHard ==
    (num_runs >= 1 /\ Raising = Idx) =>
        /\ save_calls = 0
        /\ saved = << >>
        /\ stats = None
        /\ outcome.value = None
        /\ PastCheck =>
             /\ pc = "raised"
             /\ outcome.kind = "ValueError"
             /\ outcome.msg[1].failed_runs = Some(failed_runs)
             /\ Range(failed_runs) = Idx
             /\ outcome.msg[1].all_failed

(* Three trials all failed, save_results is set, and the batch has raised *)
C2_Witness ==
    /\ num_runs = 3
    /\ Raising = Idx
    /\ save_results
    /\ pc = "raised"
    /\ outcome.kind = "ValueError"

(* C3: aggregate correctness.  When batch_eval returns, scores holds       *)
(* exactly the scores evaluate() returned to the successful trials (the    *)
(* placeholder 0.0 of a failed trial is not among them), and mean, min,    *)
(* max and median are those of the successful scores.                      *)
C3_AggregateCorrectness ==
    Returned =>
        LET st == outcome.value[1].statistics
            sc == outcome.value[1].scores
        IN /\ Len(sc) = Cardinality(Succeeded)
           /\ Sorted(sc) = Sorted(SucceededScores)
           /\ RatEq(st.mean, Mean(SucceededScores))
           /\ st.min = MinSeq(SucceededScores)
           /\ st.max = MaxSeq(SucceededScores)
           /\ RatEq(st.median, Median(SucceededScores))

(* A returned batch of three: one trial failed, the others scored 1.0 and  *)
(* 0.5, so the mean is 0.75 (3/2 in halves) and not 0.5                    *)
C3_Witness ==
    /\ Returned
    /\ num_runs = 3
    /\ Cardinality(Raising) = 1
    /\ Range(outcome.value[1].scores) = {1, 2}
    /\ RatEq(outcome.value[1].statistics.mean, <<3, 2>>)

(* C4: bounded concurrency.  With more trials than workers, at most        *)
(* max_workers trials are inside run_single_eval at the same time.         *)
C4_BoundedConcurrency ==
    num_runs > max_workers => Cardinality(Executing) <= max_workers

(* Two workers are both busy while a third trial waits in the queue *)
C4_Witness ==
    /\ num_runs > max_workers
    /\ max_workers = 2
    /\ Cardinality(Executing) = 2
    /\ Queued # {}

(* C5: a failing save is not fatal.  Once save() has raised after the      *)
(* statistics were computed, batch_eval goes on to return its dictionary   *)
(* with the scores and statistics; the exception does not reach the caller *)
C5_SaveFailureNotFatal ==
    (save_calls > Len(saved)) =>
        /\ stats # None
        /\ pc \in {"return", "done"}
        /\ pc = "done" =>
             /\ Returned
             /\ outcome.value[1].statistics = stats[1]
             /\ outcome.value[1].scores = results

(* C11: persistence is gated and happens once per batch.  With             *)
(* save_results false no record is ever saved; with save_results true and  *)
(* at least one successful trial, a batch that returned has saved exactly  *)
(* one record, which carries the mean score, the number of successful      *)
(* runs, the model identifier and the eval name of the batch.              *)
C11_PersistenceGated ==
    /\ ~save_results => (saved = << >> /\ save_calls = 0)
    /\ (save_results /\ Returned /\ Succeeded # {}) =>
          /\ Len(saved) = 1
          /\ RatEq(saved[1].result[1], Mean(SucceededScores))
          /\ saved[1].runs = Some(Cardinality(Succeeded))
          /\ saved[1].eval_name = Some(EVAL_NAME)
          /\ saved[1].model_name = Some(factory_model)

(* C12: completion order does not affect the aggregate.  What a returned   *)
(* batch reports is fixed by the outcomes of its trials (which raised,     *)
(* what evaluate() returned to the others) alone: the statistics are those *)
(* of the successful scores taken in index order, the scores are these     *)
(* scores as a multiset and the failed indices are the raising trials as   *)
(* a set, in whatever order the trials completed and were collected.       *)
C12_OrderIndependent ==
    Returned =>
        LET st == outcome.value[1].statistics
            byIndex == Stats(SucceededScores, [k \in 1 .. Cardinality(Raising) |-> 0], num_runs)
        IN /\ st = byIndex
           /\ Sorted(outcome.value[1].scores) = Sorted(SucceededScores)
           /\ Range(outcome.value[1].failed_runs) = Raising
           /\ Len(outcome.value[1].failed_runs) = Cardinality(Raising)

(* A returned batch of three whose trials were collected out of index      *)
(* order: the scores list differs from the scores by index                 *)
C12_Witness ==
    /\ Returned
    /\ num_runs = 3
    /\ Raising = {}
    /\ SucceededScores = <<0, 1, 2>>
    /\ outcome.value[1].scores = <<1, 0, 2>>

(* A returned batch whose failed indices are listed out of index order *)
C12_WitnessFailedOrder ==
    /\ Returned
    /\ outcome.value[1].failed_runs = <<2, 0>>

(* C9: no retry.  eval_factory is called once with each index used as the  *)
(* seed: never twice with one seed, once for every trial that got past the *)
(* factory call, once for each of 0..num_runs-1 when the batch is over;    *)
(* a trial that returned is never started, constructed or run again.       *)
C9_FactoryCalls ==
    /\ \A i \in Idx : factory_calls[i] <= 1
    /\ \A i \in Idx : phase[i] \in {"run", "evaluate", "returned"} => factory_calls[i] = 1
    /\ PastCheck => \A i \in Idx : factory_calls[i] = 1

C9_ReturnedStays ==
    \A i \in Idx :
        phase[i] = "returned" =>
            /\ phase'[i] = "returned"
            /\ factory_calls'[i] = factory_calls[i]
            /\ ret'[i] = ret[i]

(* C9: no retry, as one formula: the factory is called once per seed in    *)
(* every state, and no step touches a trial that has returned              *)
C9_NoRetry == [] C9_FactoryCalls /\ [][C9_ReturnedStays]_vars

(* A finished batch of three in which the first trial failed *)
C9_Witness ==
    /\ pc = "done"
    /\ num_runs = 3
    /\ raised[0]
    /\ \A i \in Idx : factory_calls[i] = 1

-----------------------------------------------------------------------------
(* batch_eval from core.py:175 on: the part after the with-block, started  *)
(* in the states the collection loop leaves behind for batches of up to    *)
(* MaxAggRuns trials.  The successful trials are lo .. lo+k-1, trial n     *)
(* scored (n + off) % 3 halves, and the futures completed in index order.  *)

RECURSIVE ScoresFrom(_, _, _)
ScoresFrom(lo, k, off) ==
    IF k = 0 THEN << >>
    ELSE <<(lo + off) % 3>> \o ScoresFrom(lo + 1, k - 1, off)

RECURSIVE IndicesOutside(_, _, _)
IndicesOutside(n, lo, hi) ==
    IF n = 0 THEN << >>
    ELSE IF (n - 1) \in lo .. hi
         THEN IndicesOutside(n - 1, lo, hi)
         ELSE Append(IndicesOutside(n - 1, lo, hi), n - 1)

AggInit ==
    /\ num_runs \in 0 .. MaxAggRuns
    /\ max_workers = MaxWorkers
    /\ save_results \in BOOLEAN
    /\ factory_model \in ModelIds
    /\ submitted = num_runs
    /\ factory_calls = [n \in Idx |-> 1]
    /\ \E k \in 0 .. num_runs, lo \in 0 .. num_runs, off \in 0 .. 2 :
         /\ lo + k <= num_runs
         /\ k = 0 => (lo = 0 /\ off = 0)
         /\ phase = [n \in Idx |-> "returned"]
         /\ raised = [n \in Idx |-> n \notin lo .. (lo + k - 1)]
         /\ eval_score = [n \in Idx |->
                IF n \in lo .. (lo + k - 1) THEN Some((n + off) % 3) ELSE None]
         /\ ret = [n \in Idx |->
                IF n \in lo .. (lo + k - 1) THEN SuccessTuple((n + off) % 3)
                ELSE FailureTuple]
         /\ results = ScoresFrom(lo, k, off)
         /\ failed_runs = IndicesOutside(num_runs, lo, lo + k - 1)
         /\ model_name = IF k > 0 THEN Some(factory_model) ELSE None
         /\ eval_name = IF k > 0 THEN Some(EVAL_NAME) ELSE None
    /\ pc = "check"
    /\ collected = Idx
    /\ notice = "none"
    /\ stats = None
    /\ saved = << >>
    /\ save_calls = 0
    /\ outcome = [kind |-> "none", msg |-> None, value |-> None]
    /\ EvalIdle
    /\ AuxIdle

AggNext ==
    \/ Check
    \/ ComputeStats
    \/ SaveSkipped
    \/ SaveSucceeds
    \/ SaveRaises
    \/ Return

SpecAggregate == AggInit /\ [][AggNext]_vars

(* C10: a low success rate warns but does not block.  With at least one    *)
(* successful trial the check never raises, the statistics are computed    *)
(* over the successful trials and returned (only a raising save() can      *)
(* still keep batch_eval from returning); the low-success warning is       *)
(* printed exactly when num_runs > 1 and successful / num_runs < 0.1.      *)
C10_LowSuccessWarns ==
    (Succeeded # {} /\ PastCheck) =>
        /\ outcome.kind # "ValueError"
        /\ (notice = "low_success_warning") <=>
               (num_runs > 1 /\ 10 * Cardinality(Succeeded) < num_runs)
        /\ pc \in {"save", "return", "done", "raised"} =>
               /\ stats # None
               /\ stats[1].successful_runs = Cardinality(Succeeded)
               /\ RatEq(stats[1].mean, Mean(SucceededScores))
        /\ pc = "raised" => outcome.kind = "save_error"
        /\ pc = "done" => (Returned /\ outcome.value[1].statistics = stats[1])

(* One success in eleven trials: warned, and the statistics are returned *)
C10_Witness ==
    /\ num_runs = 11
    /\ Cardinality(Succeeded) = 1
    /\ notice = "low_success_warning"
    /\ Returned
    /\ outcome.value[1].statistics.successful_runs = 1

(* One success in ten trials is exactly 10%: no warning *)
C10_WitnessTenPercent ==
    /\ num_runs = 10
    /\ Cardinality(Succeeded) = 1
    /\ notice = "some_failed_info"
    /\ Returned

-----------------------------------------------------------------------------
(* Eval.run (core.py:73-88): the turn loop of one trial.  The two agents   *)
(* are any agents: a respond() returns some content or raises, is_done()   *)
(* returns either answer, evaluate() returns some score or raises.         *)

(* Eval.max_turns *)
max_turns == 10

(* What a respond() can return *)
Contents == {"p", "q"}

(* The preamble an Assistant is built with (core.py:31-34): none, or a     *)
(* system message                                                          *)
Preambles == {<< >>, <<[role |-> "system", content |-> "s"]>>}

(* What a call inside run() can raise: the completion timing out           *)
(* (llm.py:32-50, timeout=20), a reply without choices (llm.py:54)         *)
Exceptions == {"Timeout", "KeyError"}

(* Agent.role of the two agents (core.py:29, core.py:57) *)
RoleOf(agent) == IF agent = "assistant" THEN "assistant" ELSE "user"

(* Faulty variant of Other: control never passes to the other agent *)
OtherSame(agent) == agent

(* core.py:84: self.assistant if current == self.user else self.user *)
Other(agent) == IF agent = "user" THEN "assistant" ELSE "user"

(* Faulty variant of HasNextTurn: range(self.max_turns + 1) *)
HasNextTurnOneMore(n) == n + 1 < max_turns + 1

(* range(self.max_turns) has a value after n *)
HasNextTurn(n) == n + 1 < max_turns

(* The batch variables while only one trial is looked at *)
BatchIdle ==
    /\ num_runs = 0
    /\ max_workers = 1
    /\ save_results = FALSE
    /\ factory_model = <<"c">>
    /\ submitted = 0
    /\ phase = << >>
    /\ ret = << >>
    /\ factory_calls = << >>
    /\ eval_score = << >>
    /\ raised = << >>
    /\ pc = "idle"
    /\ collected = {}
    /\ results = << >>
    /\ failed_runs = << >>
    /\ model_name = None
    /\ eval_name = None
    /\ notice = "none"
    /\ stats = None
    /\ saved = << >>
    /\ save_calls = 0
    /\ outcome = [kind |-> "none", msg |-> None, value |-> None]

(* Eval.__init__ (core.py:66-71) has run: the transcript is empty *)
EvalInit ==
    /\ e_pc = "start"
    /\ turn = -1
    /\ current = "user"
    /\ response = None
    /\ chat_history = << >>
    /\ score = None
    /\ broke = FALSE
    /\ respond_calls = 0
    /\ evaluate_calls = 0
    /\ messages \in Preambles
    /\ exc = None
    /\ thrown = None
    /\ BatchIdle
    /\ AuxIdle

(* core.py:75-77: current = self.user; response = None *)
RunStart ==
    /\ e_pc = "start"
    /\ current' = "user"
    /\ response' = None
    /\ e_pc' = "loop"
    /\ UNCHANGED <<batch_vars, messages, exc, thrown, turn, chat_history, score, broke,
                   respond_calls, evaluate_calls>>

(* core.py:79: the for statement takes the next i, or the range is used up *)
LoopNext ==
    /\ e_pc = "loop"
    /\ IF HasNextTurn(turn)
       THEN /\ turn' = turn + 1
            /\ e_pc' = "respond"
       ELSE /\ turn' = turn
            /\ e_pc' = "evaluate"
    /\ UNCHANGED <<batch_vars, messages, exc, thrown, current, response, chat_history, score, broke,
                   respond_calls, evaluate_calls>>

(* core.py:80: current.respond(self.chat_history) returns c *)
RespondReturns(c) ==
    /\ e_pc = "respond"
    /\ response' = Some(c)
    /\ respond_calls' = respond_calls + 1
    /\ e_pc' = "append"
    /\ UNCHANGED <<batch_vars, messages, exc, thrown, turn, current, chat_history, score, broke,
                   evaluate_calls>>

(* Faulty variant of RespondRaises: the failure of the call is swallowed   *)
(* and an empty response is returned, as util/llm.py:77-88 does            *)
RespondRaisesSwallowed ==
    /\ e_pc = "respond"
    /\ respond_calls' = respond_calls + 1
    /\ \E x \in Exceptions :
          thrown' = Some([error |-> x, from |-> RoleOf(current), turn |-> turn])
    /\ response' = Some("p")
    /\ e_pc' = "append"
    /\ UNCHANGED <<batch_vars, messages, exc, turn, current, chat_history, score,
                   broke, evaluate_calls>>

(* core.py:80: the call made by current.respond(self.chat_history) (for    *)
(* the Assistant: completion, core.py:48) raises x.  Neither respond() nor *)
(* run() has a try statement: x leaves both                                *)
RespondRaises ==
    /\ e_pc = "respond"
    /\ respond_calls' = respond_calls + 1
    /\ \E x \in Exceptions :
          /\ thrown' = Some([error |-> x, from |-> RoleOf(current), turn |-> turn])
          /\ exc' = thrown'
    /\ e_pc' = "raised"
    /\ UNCHANGED <<batch_vars, messages, turn, current, response, chat_history, score,
                   broke, evaluate_calls>>

(* Faulty variant of AppendMessage: the message is put in front *)
AppendMessageInFront ==
    /\ e_pc = "append"
    /\ chat_history' = <<[role |-> RoleOf(current), content |-> response[1]]>> \o chat_history
    /\ e_pc' = "is_done"
    /\ UNCHANGED <<batch_vars, messages, exc, thrown, turn, current, response, score, broke,
                   respond_calls, evaluate_calls>>

(* core.py:81: self.chat_history.append(Message(role=current.role, content=response)) *)
AppendMessage ==
    /\ e_pc = "append"
    /\ chat_history' = Append(chat_history,
                              [role |-> RoleOf(current), content |-> response[1]])
    /\ e_pc' = "is_done"
    /\ UNCHANGED <<batch_vars, messages, exc, thrown, turn, current, response, score, broke,
                   respond_calls, evaluate_calls>>

(* Faulty variant of IsDone: the answer of is_done() is not acted upon,    *)
(* the loop goes on with the other agent                                   *)
IsDoneNeverBreaks(b) ==
    /\ e_pc = "is_done"
    /\ broke' = (broke \/ b)
    /\ current' = Other(current)
    /\ e_pc' = "loop"
    /\ UNCHANGED <<batch_vars, messages, exc, thrown, turn, response, chat_history, score,
                   respond_calls, evaluate_calls>>

(* Faulty variant of IsDone: evaluate() is called inside the loop, after   *)
(* every turn, and the loop goes on                                        *)
IsDoneEvaluatingEachTurn(b) ==
    /\ e_pc = "is_done"
    /\ evaluate_calls' = evaluate_calls + 1
    /\ IF b
       THEN /\ broke' = TRUE
            /\ current' = current
            /\ e_pc' = "evaluate"
       ELSE /\ broke' = broke
            /\ current' = Other(current)
            /\ e_pc' = "loop"
    /\ UNCHANGED <<batch_vars, messages, exc, thrown, turn, response, chat_history, score, respond_calls>>

(* core.py:82-84: current.is_done() answers b: break, or the other agent is next *)
IsDone(b) ==
    /\ e_pc = "is_done"
    /\ IF b
       THEN /\ broke' = TRUE
            /\ current' = current
            /\ e_pc' = "evaluate"
       ELSE /\ broke' = broke
            /\ current' = Other(current)
            /\ e_pc' = "loop"
    /\ UNCHANGED <<batch_vars, messages, exc, thrown, turn, response, chat_history, score,
                   respond_calls, evaluate_calls>>

(* core.py:86-88: self.evaluate() returns s; the chat is printed, s returned *)
RunEvaluateReturns(s) ==
    /\ e_pc = "evaluate"
    /\ evaluate_calls' = evaluate_calls + 1
    /\ score' = Some(s)
    /\ e_pc' = "done"
    /\ UNCHANGED <<batch_vars, messages, exc, thrown, turn, current, response, chat_history, broke,
                   respond_calls>>

(* core.py:86: self.evaluate() raises, and so does run() *)
RunEvaluateRaises ==
    /\ e_pc = "evaluate"
    /\ evaluate_calls' = evaluate_calls + 1
    /\ \E x \in Exceptions :
          /\ thrown' = Some([error |-> x, from |-> "evaluate", turn |-> turn])
          /\ exc' = thrown'
    /\ e_pc' = "raised"
    /\ UNCHANGED <<batch_vars, messages, turn, current, response, chat_history, score,
                   broke, respond_calls>>

EvalNext ==
    \/ RunStart
    \/ LoopNext
    \/ \E c \in Contents : RespondReturns(c)
    \/ RespondRaises
    \/ AppendMessage
    \/ \E b \in BOOLEAN : IsDone(b)
    \/ \E s \in Scores : RunEvaluateReturns(s)
    \/ RunEvaluateRaises

SpecEval == EvalInit /\ [][EvalNext]_vars

-----------------------------------------------------------------------------
(* Properties of Eval.run *)

Roles == {RoleOf("user"), RoleOf("assistant")}

(* No two consecutive messages of the transcript have the same role *)
Alternating(h) == \A k \in 1 .. (Len(h) - 1) : h[k].role # h[k + 1].role

(* The run was not cut short: no break, no exception *)
NotCutShort == ~broke /\ e_pc # "raised"

(* C6: turn alternation.  In a run that does not terminate early the roles *)
(* of the transcript are the two agents' roles, strictly alternating, and  *)
(* the transcript has at most 2 * max_turns messages.                      *)
C6_TurnAlternation ==
    NotCutShort =>
        /\ \A k \in 1 .. Len(chat_history) : chat_history[k].role \in Roles
        /\ Alternating(chat_history)
        /\ Len(chat_history) <= 2 * max_turns

(* A run that took every turn of the loop and reached the end *)
C6_Witness ==
    /\ e_pc = "done"
    /\ ~broke
    /\ Len(chat_history) = max_turns
    /\ chat_history[1].role = "user"
    /\ chat_history[2].role = "assistant"

(* C7: bounded termination.  The turns are numbered 0 .. max_turns-1 and   *)
(* never higher; when no agent reported done and every respond() returned, *)
(* the loop is left after exactly max_turns turns, for evaluate().         *)
C7_BoundedTurns ==
    /\ turn <= max_turns - 1
    /\ respond_calls <= max_turns
    /\ e_pc \in {"respond", "append", "is_done"} => turn \in 0 .. (max_turns - 1)
    /\ (NotCutShort /\ e_pc \in {"evaluate", "done"}) =>
           /\ respond_calls = max_turns
           /\ Len(chat_history) = max_turns
           /\ turn = max_turns - 1

(* evaluate() is reached with the loop used up: max_turns turns, no break *)
C7_Witness ==
    /\ e_pc = "evaluate"
    /\ ~broke
    /\ respond_calls = max_turns
    /\ evaluate_calls = 0

(* C8: evaluate() once, after the loop.  A run that returned a score       *)
(* called evaluate() exactly once; evaluate() starts only when every       *)
(* response of the loop is in the transcript; from then on no agent        *)
(* responds and the transcript does not change.                            *)
C8_EvaluateCalls ==
    /\ evaluate_calls <= 1
    /\ e_pc = "done" => (score # None /\ evaluate_calls = 1)
    /\ evaluate_calls = 1 => e_pc \in {"done", "raised"}
    /\ e_pc = "evaluate" => Len(chat_history) = respond_calls

C8_NothingAfterEvaluate ==
    e_pc \in {"evaluate", "done"} =>
        /\ chat_history' = chat_history
        /\ respond_calls' = respond_calls

(* C8: evaluate() exactly once and only after the loop, as one formula:    *)
(* the call counts hold in every state, and no step after evaluate() has   *)
(* started appends a message or calls respond()                            *)
C8_EvaluateOnceAfterLoop == [] C8_EvaluateCalls /\ [][C8_NothingAfterEvaluate]_vars

(* A run of two turns, ended by the assistant reporting done, that scored *)
C8_Witness ==
    /\ e_pc = "done"
    /\ score # None
    /\ broke
    /\ Len(chat_history) = 2
    /\ evaluate_calls = 1

(* C15: the transcript is append-only during a run.  A step of run()       *)
(* either leaves chat_history as it is or puts one message at its end,     *)
(* tagged with the role of the agent that just responded and holding its   *)
(* response, the earlier messages staying as they were and in place; the   *)
(* transcript has one message per turn taken; respond() changes neither    *)
(* the transcript nor the preamble of the Assistant, which no step changes.*)
C15_OneMessagePerTurn ==
    /\ e_pc \in {"is_done", "loop", "evaluate", "done"} => Len(chat_history) = turn + 1
    /\ e_pc \in {"respond", "append"} => Len(chat_history) = turn
    /\ e_pc \in {"is_done", "loop", "evaluate", "done"} => Len(chat_history) = respond_calls

C15_Step ==
    /\ messages' = messages
    /\ Len(chat_history') \in {Len(chat_history), Len(chat_history) + 1}
    /\ SubSeq(chat_history', 1, Len(chat_history)) = chat_history
    /\ Len(chat_history') = Len(chat_history) + 1 =>
          /\ chat_history'[Len(chat_history')].role = RoleOf(current)
          /\ chat_history'[Len(chat_history')].content = response[1]
          /\ turn' = turn
    /\ respond_calls' # respond_calls => chat_history' = chat_history

(* C15, as one formula: the invariant and the step property *)
C15_AppendOnly == [] C15_OneMessagePerTurn /\ [][C15_Step]_vars

(* An Assistant with a preamble has answered the user's first message:     *)
(* the transcript holds the two messages in order                          *)
C15_Witness ==
    /\ e_pc = "is_done"
    /\ messages # << >>
    /\ Len(chat_history) = 2
    /\ chat_history[1] = [role |-> "user", content |-> "p"]
    /\ chat_history[2] = [role |-> "assistant", content |-> "q"]

-----------------------------------------------------------------------------
(* Assistant.respond on the pool threads.  Every trial's run() calls       *)
(* respond() of its Assistant on the thread that runs the trial, and       *)
(* respond() appends the time of the call to the list TIMES of the module  *)
(* and reads the whole list for the average it prints.                     *)

(* How many calls of respond() are looked at per trial *)
MaxResponds == 1

TimesBy(i) == Cardinality({k \in 1 .. Len(TIMES) : TIMES[k] = i})

(* core.py:44-53: a call of respond() inside the run() of trial i has got  *)
(* its completion: TIMES.append(...), then np.mean(TIMES), np.max(TIMES)   *)
AssistantResponds(i) ==
    /\ phase[i] = "run"
    /\ TimesBy(i) < MaxResponds
    /\ TIMES' = Append(TIMES, i)
    /\ UNCHANGED <<num_runs, max_workers, save_results, factory_model, eval_vars,
                   trial_vars, main_vars, registry_vars, cli_vars, debug_vars,
                   seeded_vars>>

ThreadsNext ==
    \/ Next
    \/ \E i \in Idx : AssistantResponds(i)

SpecThreads == Init /\ [][ThreadsNext]_vars

(* C14: the results buffer is the only state shared between trials.  No    *)
(* two trials that are running at the same time have both written any      *)
(* other state (here: the list TIMES), and scores and failed_runs grow     *)
(* only by the appends of the collecting thread, one per collected trial.  *)
C14_OnlyResultsShared ==
    /\ \A i, j \in Executing : (i # j) => ~({i, j} \subseteq Range(TIMES))
    /\ Len(results) + Len(failed_runs) = Cardinality(collected)

-----------------------------------------------------------------------------
(* registry.py: the registry of evaluations and create_eval_factory.  A    *)
(* dictionary of keyword parameters is a function from its keys.           *)

(* The largest seed an eval_factory is called with *)
MaxSeed == 1

(* The names a registration or a lookup is made with; "nope" is never      *)
(* registered                                                              *)
RegisteredNames == {"math", "tictactoe_random"}
LookupNames == RegisteredNames \cup {"nope"}

(* The factory registered under a name: math.py:93-100, tictactoe.py:203-208 *)
FactoryOf(name) == IF name = "math" THEN "MathEval" ELSE "lambda_tictactoe_random"

ParamKeys == {"low", "high"}
ParamValues == {1, 2}
ParamDicts == UNION {[D -> ParamValues] : D \in SUBSET ParamKeys}

(* The defaults a registration gives, and the overrides a caller gives *)
DefaultDicts ==
    {d \in ParamDicts : /\ DOMAIN d \in {{}, {"low"}, {"low", "high"}}
                        /\ \A k \in DOMAIN d : d[k] = 1}
OverrideDicts == {o \in ParamDicts : \A k \in DOMAIN o : o[k] = 2}

(* core_vars: what registry.py does not touch *)
core_vars == <<num_runs, max_workers, save_results, factory_model, trial_vars,
               main_vars, eval_vars, TIMES, cli_vars, debug_vars, seeded_vars>>

(* registry.py:12-34: EVALS[name] = {...} *)
RegisterEval(name, factory, default_params) ==
    /\ EVALS' = [n \in DOMAIN EVALS \cup {name} |->
                   IF n = name
                   THEN [factory |-> factory, default_params |-> default_params]
                   ELSE EVALS[n]]
    /\ UNCHANGED <<core_vars, cf_result, call>>

(* Faulty variant of Merge: a default wins over an override of its key *)
MergeDefaultsWin(d, o) ==
    [k \in DOMAIN d \cup DOMAIN o |-> IF k \in DOMAIN d THEN d[k] ELSE o[k]]

(* registry.py:64: {**config["default_params"], **kwargs}, a new dictionary *)
Merge(d, o) ==
    [k \in DOMAIN d \cup DOMAIN o |-> IF k \in DOMAIN o THEN o[k] ELSE d[k]]

(* registry.py:42-46: get_eval_config raises for a name not in EVALS *)
Known(name) == name \in DOMAIN EVALS

(* registry.py:49-70: create_eval_factory(name, model, **kwargs) raises    *)
(* the ValueError of get_eval_config, or returns the closure eval_factory  *)
(* over factory, model and params                                          *)
CreateResult(name, model, kwargs) ==
    IF Known(name)
    THEN [kind |-> "factory", name |-> name, model |-> model, overrides |-> kwargs,
          factory |-> Some(EVALS[name].factory),
          params |-> Some(Merge(EVALS[name].default_params, kwargs)),
          defaults |-> Some(EVALS[name].default_params)]
    ELSE [kind |-> "ValueError", name |-> name, model |-> model, overrides |-> kwargs,
          factory |-> None, params |-> None, defaults |-> None]

(* A call of create_eval_factory from anywhere *)
CreateEvalFactory(name, model, kwargs) ==
    /\ cf_result' = CreateResult(name, model, kwargs)
    /\ UNCHANGED <<core_vars, EVALS, call>>

(* registry.py:66-67: eval_factory(seed) calls                             *)
(* factory(model=model, rng_seed=seed, **params)                           *)
CallOf(seed) ==
    [of |-> cf_result, seed |-> seed,
     factory |-> cf_result.factory[1], model |-> cf_result.model,
     rng_seed |-> seed, params |-> cf_result.params[1]]

(* A call of a returned eval_factory from anywhere *)
EvalFactory(seed) ==
    /\ cf_result.kind = "factory"
    /\ call' = Some(CallOf(seed))
    /\ UNCHANGED <<core_vars, EVALS, cf_result>>

RegistryInit ==
    /\ BatchIdle
    /\ EvalIdle
    /\ TimesIdle
    /\ RegistryIdle
    /\ CliIdle
    /\ DebugIdle
    /\ SeededIdle

RegistryNext ==
    \/ \E name \in RegisteredNames, d \in DefaultDicts :
          RegisterEval(name, FactoryOf(name), d)
    \/ \E name \in LookupNames, model \in ModelIds, o \in OverrideDicts :
          CreateEvalFactory(name, model, o)
    \/ \E seed \in 0 .. MaxSeed : EvalFactory(seed)

SpecRegistry == RegistryInit /\ [][RegistryNext]_vars

(* What holds of the last create_eval_factory and of the last call of a    *)
(* returned eval_factory                                                   *)
C17_Factory ==
    /\ cf_result.kind = "factory" =>
          LET d == cf_result.defaults[1]
              o == cf_result.overrides
              q == cf_result.params[1]
          IN /\ DOMAIN q = DOMAIN d \cup DOMAIN o
             /\ \A k \in DOMAIN o : q[k] = o[k]
             /\ \A k \in DOMAIN d \ DOMAIN o : q[k] = d[k]
             /\ cf_result.factory = Some(FactoryOf(cf_result.name))
    /\ cf_result.kind = "ValueError" => (cf_result.factory = None /\ cf_result.params = None)
    /\ call # None =>
          LET c == call[1]
          IN /\ c.of.kind = "factory"
             /\ c.factory = c.of.factory[1]
             /\ c.model = c.of.model
             /\ c.rng_seed = c.seed
             /\ c.params = c.of.params[1]

(* A call of create_eval_factory or of an eval_factory leaves the registry *)
(* as it is; create_eval_factory returns a factory exactly for a name that *)
(* is registered, built from what is registered under that name            *)
C17_Step ==
    /\ (cf_result' # cf_result \/ call' # call) => EVALS' = EVALS
    /\ cf_result' # cf_result =>
          /\ cf_result'.kind \in {"factory", "ValueError"}
          /\ cf_result'.kind = "factory" <=> cf_result'.name \in DOMAIN EVALS
          /\ cf_result'.kind = "factory" =>
                /\ cf_result'.defaults = Some(EVALS[cf_result'.name].default_params)
                /\ cf_result'.factory = Some(EVALS[cf_result'.name].factory)

(* C17: create_eval_factory(name, model, **overrides) returns a function   *)
(* of the seed that calls the registered factory with rng_seed = seed, the *)
(* given model and the registered defaults merged with the overrides, an   *)
(* override winning over a default of its key; the registry entry is not   *)
(* modified, and an unregistered name gets the ValueError and no factory.  *)
C17_CreateEvalFactory == [] C17_Factory /\ [][C17_Step]_vars

(* A factory made with an override of one of two defaults has been called  *)
(* with seed 1: low is the override, high the default                      *)
C17_Witness ==
    /\ call # None
    /\ call[1].rng_seed = 1
    /\ call[1].of.defaults = Some([low |-> 1, high |-> 1])
    /\ call[1].of.overrides = [low |-> 2]
    /\ call[1].params = [low |-> 2, high |-> 1]
    /\ EVALS[call[1].of.name].default_params = [low |-> 1, high |-> 1]

-----------------------------------------------------------------------------
(* cli.py: the commands run and debug.  batch_eval is taken by how it can  *)
(* end for its caller: it returns, it raises the ValueError of core.py:185 *)
(* (no trial succeeded), it raises another exception (a save that failed), *)
(* or, for max_workers = 0, ThreadPoolExecutor(max_workers=0) at           *)
(* core.py:137 raises its own ValueError.                                  *)

(* The longest list of evaluation names given to run *)
MaxEvals == 2

RECURSIVE SeqsUpTo(_, _)
SeqsUpTo(S, n) ==
    IF n = 0 THEN {<< >>}
    ELSE SeqsUpTo(S, n - 1) \cup
         {Append(q, x) : q \in {t \in SeqsUpTo(S, n - 1) : Len(t) = n - 1}, x \in S}

(* cli.py:64-65: the lists a split(",") gives have at least one entry *)
EvalLists == SeqsUpTo(LookupNames, MaxEvals) \ {<< >>}
ModelLists == {<<<<"c">>>>, <<<<"a", "/", "b">>, <<"c">>>>}

(* --max-workers: not given, 0, or a positive number *)
MaxWorkersArgs == {None, Some(0), Some(2)}

(* The registry once cli.py:10-11 has imported the evaluation modules *)
Registered ==
    [n \in RegisteredNames |->
        [factory |-> FactoryOf(n),
         default_params |-> IF n = "math" THEN [low |-> 1, high |-> 2]
                            ELSE [k \in {} |-> 0]]]

cli_frame == <<num_runs, max_workers, save_results, factory_model, trial_vars,
               main_vars, eval_vars, TIMES, EVALS, debug_vars, seeded_vars>>

CliInit ==
    /\ BatchIdle
    /\ EvalIdle
    /\ TimesIdle
    /\ DebugIdle
    /\ SeededIdle
    /\ EVALS = Registered
    /\ cf_result = NoFactory
    /\ call = None
    /\ cli_cmd \in {"run", "debug"}
    /\ IF cli_cmd = "run"
       THEN /\ eval_list \in EvalLists
            /\ model_list \in ModelLists
            /\ cli_max_workers \in MaxWorkersArgs
       ELSE /\ eval_list \in {<<n>> : n \in LookupNames}
            /\ model_list \in {<<m>> : m \in ModelIds}
            /\ cli_max_workers = None
    /\ cli_pc = "validate"
    /\ ei = 1
    /\ mi = 1
    /\ invocations = << >>
    /\ failed_combinations = << >>
    /\ banner = "none"
    /\ exit_code = None
    /\ factories_created = 0
    /\ cli_trials = 0

(* Faulty variant of InvalidEvals: only the first name is looked at *)
InvalidEvalsFirstOnly(names) ==
    IF Head(names) \notin DOMAIN EVALS THEN <<Head(names)>> ELSE << >>

(* cli.py:69: [name for name in eval_list if name not in available_evals] *)
InvalidEvals(names) == SelectSeq(names, LAMBDA n : n \notin DOMAIN EVALS)

(* cli.py:67-78 (run) and cli.py:196-199 (debug): unknown names: exit(1) *)
CliValidate ==
    /\ cli_pc = "validate"
    /\ IF InvalidEvals(eval_list) # << >>
       THEN /\ exit_code' = Some(1)
            /\ cli_pc' = "exited"
       ELSE /\ exit_code' = exit_code
            /\ cli_pc' = IF cli_cmd = "run" THEN "pair" ELSE "debug_factory"
    /\ UNCHANGED <<cli_frame, cf_result, call, cli_cmd, eval_list, model_list,
                   cli_max_workers, ei, mi, invocations, failed_combinations,
                   banner, factories_created, cli_trials>>

(* cli.py:88-98: get_eval_config(eval_name), which raises for an unknown   *)
(* name, then create_eval_factory(eval_name, model) for the next pair      *)
CliCreateFactory ==
    /\ cli_pc = "pair"
    /\ IF Known(eval_list[ei])
       THEN /\ cf_result' = CreateResult(eval_list[ei], model_list[mi], [k \in {} |-> 0])
            /\ factories_created' = factories_created + 1
            /\ cli_pc' = "batch"
       ELSE /\ cf_result' = cf_result
            /\ factories_created' = factories_created
            /\ cli_pc' = "raised"
    /\ UNCHANGED <<cli_frame, call, cli_cmd, eval_list, model_list, cli_max_workers,
                   ei, mi, invocations, failed_combinations, banner, exit_code,
                   cli_trials>>

(* How batch_eval can end for the command, by max_workers: the pool        *)
(* refuses max_workers = 0 before any trial is submitted                   *)
BatchOutcomes(mw) ==
    IF mw # None /\ mw[1] <= 0 THEN {"pool_value_error"}
    ELSE {"returned", "no_success", "error"}

(* The exception a batch_eval that did not return has raised *)
BatchException(o) ==
    IF o = "no_success"
    THEN [type |-> "ValueError", msg |-> "No evaluations completed successfully"]
    ELSE IF o = "pool_value_error"
    THEN [type |-> "ValueError", msg |-> "max_workers must be greater than 0"]
    ELSE [type |-> "Exception", msg |-> "save failed"]

(* Faulty variant of Handle: the no-success error is raised again, too *)
HandleStopsOnFailure(err) ==
    IF err.type = "ValueError" THEN "reraise" ELSE "record"

(* cli.py:117-139: except ValueError: recorded when the message has the    *)
(* no-success text, raised again otherwise; except Exception: recorded     *)
Handle(err) ==
    IF err.type = "ValueError"
    THEN IF err.msg = "No evaluations completed successfully" THEN "record" ELSE "reraise"
    ELSE "record"

(* The two for statements of cli.py:88-94 move on to the next pair, or end *)
CliAdvance ==
    IF mi < Len(model_list)
    THEN /\ mi' = mi + 1
         /\ ei' = ei
         /\ cli_pc' = "pair"
    ELSE IF ei < Len(eval_list)
    THEN /\ mi' = 1
         /\ ei' = ei + 1
         /\ cli_pc' = "pair"
    ELSE /\ mi' = mi
         /\ ei' = ei
         /\ cli_pc' = "summary"

(* cli.py:100-139: batch_eval(...) for the pair ends with outcome o *)
CliBatch(o) ==
    /\ cli_pc = "batch"
    /\ o \in BatchOutcomes(cli_max_workers)
    /\ invocations' = Append(invocations,
                              [eval |-> eval_list[ei], model |-> model_list[mi], outcome |-> o])
    /\ IF o = "returned"
       THEN /\ failed_combinations' = failed_combinations
            /\ CliAdvance
       ELSE IF Handle(BatchException(o)) = "record"
       THEN /\ failed_combinations' =
                  Append(failed_combinations, <<eval_list[ei], model_list[mi]>>)
            /\ CliAdvance
       ELSE /\ failed_combinations' = failed_combinations
            /\ cli_pc' = "raised"
            /\ UNCHANGED <<ei, mi>>
    /\ UNCHANGED <<cli_frame, cf_result, call, cli_cmd, eval_list, model_list,
                   cli_max_workers, banner, exit_code, factories_created, cli_trials>>

(* cli.py:141-175: the summary, then the failure summary or the success banner *)
CliBanner ==
    /\ cli_pc = "summary"
    /\ banner' = IF failed_combinations # << >> THEN "failure" ELSE "success"
    /\ cli_pc' = "done"
    /\ UNCHANGED <<cli_frame, cf_result, call, cli_cmd, eval_list, model_list,
                   cli_max_workers, ei, mi, invocations, failed_combinations,
                   exit_code, factories_created, cli_trials>>

(* cli.py:203-204: create_eval_factory(eval_name, model) of debug *)
CliDebugCreate ==
    /\ cli_pc = "debug_factory"
    /\ cf_result' = CreateResult(eval_list[1], model_list[1], [k \in {} |-> 0])
    /\ factories_created' = factories_created + 1
    /\ cli_pc' = IF Known(eval_list[1]) THEN "debug_run" ELSE "raised"
    /\ UNCHANGED <<cli_frame, call, cli_cmd, eval_list, model_list, cli_max_workers,
                   ei, mi, invocations, failed_combinations, banner, exit_code,
                   cli_trials>>

(* cli.py:208-211: eval_factory(seed), then eval_instance.run(), which     *)
(* returns a score that is printed, or raises                              *)
CliDebugRun(seed, ok) ==
    /\ cli_pc = "debug_run"
    /\ call' = Some(CallOf(seed))
    /\ cli_trials' = cli_trials + 1
    /\ cli_pc' = IF ok THEN "done" ELSE "raised"
    /\ UNCHANGED <<cli_frame, cf_result, cli_cmd, eval_list, model_list,
                   cli_max_workers, ei, mi, invocations, failed_combinations,
                   banner, exit_code, factories_created>>

CliNext ==
    \/ CliValidate
    \/ CliCreateFactory
    \/ \E o \in {"returned", "no_success", "error", "pool_value_error"} : CliBatch(o)
    \/ CliBanner
    \/ CliDebugCreate
    \/ \E seed \in 0 .. MaxSeed, ok \in BOOLEAN : CliDebugRun(seed, ok)

SpecCli == CliInit /\ [][CliNext]_vars

(* Properties of the commands *)

UnknownGiven == \E k \in 1 .. Len(eval_list) : eval_list[k] \notin DOMAIN EVALS

(* C18: an unknown evaluation name.  When a name given to run, or the name *)
(* given to debug, is not registered, the command creates no factory,      *)
(* calls no batch_eval and runs no trial, whatever the other names are,    *)
(* and it ends by exit(1); without an unknown name it does not exit.       *)
C18_UnknownNameExits ==
    /\ UnknownGiven =>
          /\ factories_created = 0
          /\ cf_result = NoFactory
          /\ invocations = << >>
          /\ cli_trials = 0
          /\ call = None
          /\ cli_pc \in {"validate", "exited"}
          /\ cli_pc = "exited" => (exit_code # None /\ exit_code[1] # 0)
    /\ ~UnknownGiven => (exit_code = None /\ cli_pc # "exited")

(* run was given a registered name followed by an unknown one, and has     *)
(* exited with code 1                                                      *)
C18_Witness ==
    /\ cli_cmd = "run"
    /\ eval_list = <<"math", "nope">>
    /\ cli_pc = "exited"
    /\ exit_code = Some(1)

(* debug was given an unknown name, and has exited with code 1 *)
C18_WitnessDebug ==
    /\ cli_cmd = "debug"
    /\ eval_list = <<"nope">>
    /\ cli_pc = "exited"
    /\ exit_code = Some(1)

(* The cross product of the two lists, eval-major, up to the pair (e, m) *)
RECURSIVE PairsUpTo(_, _)
PairsUpTo(e, m) ==
    IF e = 0 \/ (e = 1 /\ m = 0) THEN << >>
    ELSE IF m = 0 THEN PairsUpTo(e - 1, Len(model_list))
    ELSE Append(PairsUpTo(e, m - 1), <<eval_list[e], model_list[m]>>)

AllPairs == PairsUpTo(Len(eval_list), Len(model_list))

PairOf(inv) == <<inv.eval, inv.model>>
InvokedPairs == [k \in 1 .. Len(invocations) |-> PairOf(invocations[k])]

(* The pairs whose batch_eval did not return, in order *)
FailedInvocations ==
    LET bad == SelectSeq(invocations, LAMBDA inv : inv.outcome # "returned")
    IN [k \in 1 .. Len(bad) |-> PairOf(bad[k])]

IsPrefix(a, b) == Len(a) <= Len(b) /\ a = SubSeq(b, 1, Len(a))

(* C19, as it is stated: batch_eval is called once per pair of the cross   *)
(* product, eval-major; a pair whose batch_eval fails, with zero successes *)
(* or with any other error, is recorded as failed and the remaining pairs  *)
(* still run, so that run never ends before the last pair; the success     *)
(* banner is shown exactly when no pair failed.                            *)
C19_SweepContainment ==
    (cli_cmd = "run" /\ ~UnknownGiven) =>
        /\ IsPrefix(InvokedPairs, AllPairs)
        /\ failed_combinations = FailedInvocations
        /\ cli_pc # "raised"
        /\ cli_pc \in {"summary", "done"} => InvokedPairs = AllPairs
        /\ cli_pc = "done" =>
              /\ banner \in {"success", "failure"}
              /\ banner = "success" <=> FailedInvocations = << >>
        /\ cli_pc # "done" => banner = "none"

(* The pairs whose batch_eval ended with an error that run records: the    *)
(* zero-success ValueError, or an exception that is not a ValueError       *)
RecordedInvocations ==
    LET bad == SelectSeq(invocations, LAMBDA inv : inv.outcome \in {"no_success", "error"})
    IN [k \in 1 .. Len(bad) |-> PairOf(bad[k])]

(* C19, amended: batch_eval is called at most once per pair, eval-major;   *)
(* a pair whose batch_eval raises the zero-success ValueError or an        *)
(* exception that is not a ValueError is recorded as failed and the        *)
(* remaining pairs still run; a ValueError of another kind leaves run at   *)
(* once, with the remaining pairs not run and no banner; when run reaches  *)
(* its end every pair was run and the success banner is shown exactly when *)
(* no pair failed.                                                         *)
C19_SweepContainmentAmended ==
    (cli_cmd = "run" /\ ~UnknownGiven) =>
        /\ IsPrefix(InvokedPairs, AllPairs)
        /\ failed_combinations = RecordedInvocations
        /\ \A k \in 1 .. Len(invocations) :
              invocations[k].outcome = "pool_value_error" =>
                  (k = Len(invocations) /\ cli_pc = "raised")
        /\ cli_pc = "raised" =>
              /\ invocations # << >>
              /\ invocations[Len(invocations)].outcome = "pool_value_error"
        /\ cli_pc \in {"summary", "done"} => InvokedPairs = AllPairs
        /\ cli_pc = "done" =>
              /\ banner \in {"success", "failure"}
              /\ banner = "success" <=> FailedInvocations = << >>
        /\ cli_pc # "done" => banner = "none"

(* A sweep of two evaluations over two models has ended: the second pair   *)
(* had no success, the fourth could not save, the other two returned       *)
C19_Witness ==
    /\ cli_cmd = "run"
    /\ cli_pc = "done"
    /\ Len(invocations) = 4
    /\ invocations[1].outcome = "returned"
    /\ invocations[2].outcome = "no_success"
    /\ invocations[3].outcome = "returned"
    /\ invocations[4].outcome = "error"
    /\ Len(failed_combinations) = 2
    /\ banner = "failure"

(* run was left by the ValueError of the pool at the first of four pairs *)
C19_WitnessRaised ==
    /\ cli_cmd = "run"
    /\ cli_pc = "raised"
    /\ Len(AllPairs) = 4
    /\ Len(invocations) = 1

-----------------------------------------------------------------------------
(* debug_eval (core.py:254-293): one trial, on the calling thread.  The    *)
(* trial is the Eval.run modelled above, for arbitrary agents.             *)

debug_frame == <<num_runs, max_workers, save_results, factory_model, trial_vars,
                 main_vars, TIMES, registry_vars, cli_vars, seeded_vars>>

DebugInit ==
    /\ BatchIdle
    /\ EvalIdle
    /\ TimesIdle
    /\ RegistryIdle
    /\ CliIdle
    /\ SeededIdle
    /\ dbg_pc = "start"
    /\ dbg_seed \in 0 .. MaxSeed
    /\ dbg_factory_calls = << >>
    /\ dbg_result = None

(* The dictionary of core.py:279-285 *)
DebugDict ==
    [score |-> score[1],
     model_name |-> Some(factory_model),
     eval_name |-> Some(EVAL_NAME),
     chat_history |-> Some(chat_history),
     error |-> None,
     seed |-> dbg_seed]

(* Faulty variant of DebugErrorDict: the failure is reported without the   *)
(* captured error                                                          *)
DebugErrorDictBare(x) ==
    [score |-> 0, model_name |-> None, eval_name |-> None, chat_history |-> None,
     error |-> None, seed |-> dbg_seed]

(* The dictionary of core.py:293: {"score": 0.0, "error": str(e), "seed": seed} *)
DebugErrorDict(x) ==
    [score |-> 0, model_name |-> None, eval_name |-> None, chat_history |-> None,
     error |-> Some(x), seed |-> dbg_seed]

(* core.py:268: eval_factory(seed) returns the instance, whose             *)
(* constructor (core.py:66-71) has emptied the transcript                  *)
DebugFactoryReturns ==
    /\ dbg_pc = "start"
    /\ dbg_factory_calls' = Append(dbg_factory_calls, dbg_seed)
    /\ dbg_pc' = "run"
    /\ e_pc' = "start"
    /\ messages' \in Preambles
    /\ UNCHANGED <<debug_frame, dbg_seed, dbg_result, turn, current, response,
                   chat_history, score, broke, respond_calls, evaluate_calls, exc,
                   thrown>>

(* core.py:268: eval_factory(seed) raises x; core.py:287-293 *)
DebugFactoryRaises(x) ==
    /\ dbg_pc = "start"
    /\ dbg_factory_calls' = Append(dbg_factory_calls, dbg_seed)
    /\ dbg_result' = Some(DebugErrorDict(x))
    /\ dbg_pc' = "done"
    /\ UNCHANGED <<debug_frame, dbg_seed, eval_vars>>

(* core.py:273-285: run() has returned the score *)
DebugReturns ==
    /\ dbg_pc = "run"
    /\ e_pc = "done"
    /\ dbg_result' = Some(DebugDict)
    /\ dbg_pc' = "done"
    /\ UNCHANGED <<debug_frame, dbg_seed, dbg_factory_calls, eval_vars>>

(* core.py:273, 287-293: run() has raised *)
DebugFails ==
    /\ dbg_pc = "run"
    /\ e_pc = "raised"
    /\ dbg_result' = Some(DebugErrorDict(exc[1].error))
    /\ dbg_pc' = "done"
    /\ UNCHANGED <<debug_frame, dbg_seed, dbg_factory_calls, eval_vars>>

DebugNext ==
    \/ DebugFactoryReturns
    \/ \E x \in Exceptions : DebugFactoryRaises(x)
    \/ EvalNext
    \/ DebugReturns
    \/ DebugFails

SpecDebug == DebugInit /\ [][DebugNext]_vars

(* C20: debug_eval(eval_factory, seed) constructs one trial, by one call   *)
(* of the factory with the given seed, and runs it on the calling thread:  *)
(* no pool task is submitted, nothing is aggregated or saved.  Its result  *)
(* exists only once the trial has ended; it carries the seed given; after  *)
(* a run that returned it holds the score, the model, the eval name and    *)
(* the transcript of that trial, and after a raise the captured error.     *)
C20_DebugEval ==
    /\ submitted = 0 /\ pc = "idle" /\ results = << >> /\ stats = None
    /\ saved = << >> /\ save_calls = 0
    /\ Len(dbg_factory_calls) <= 1
    /\ dbg_pc \in {"run", "done"} => dbg_factory_calls = <<dbg_seed>>
    /\ evaluate_calls <= 1
    /\ dbg_pc # "done" => dbg_result = None
    /\ dbg_pc = "done" =>
          /\ dbg_result # None
          /\ dbg_result[1].seed = dbg_seed
          /\ e_pc \in {"idle", "done", "raised"}
          /\ e_pc = "done" =>
                /\ evaluate_calls = 1
                /\ dbg_result[1].score = score[1]
                /\ dbg_result[1].model_name = Some(factory_model)
                /\ dbg_result[1].eval_name = Some(EVAL_NAME)
                /\ dbg_result[1].chat_history = Some(chat_history)
                /\ dbg_result[1].error = None
          /\ e_pc = "raised" =>
                /\ dbg_result[1].error = Some(exc[1].error)
                /\ dbg_result[1].score = 0
          /\ e_pc = "idle" =>
                /\ dbg_result[1].error # None
                /\ respond_calls = 0

(* debug_eval with seed 1 has returned the result of a trial of two turns *)
C20_Witness ==
    /\ dbg_pc = "done"
    /\ dbg_seed = 1
    /\ e_pc = "done"
    /\ Len(chat_history) = 2
    /\ dbg_result[1].score = 2
    /\ dbg_result[1].chat_history = Some(chat_history)

(* debug_eval has reported the error of a trial whose second respond raised *)
C20_WitnessError ==
    /\ dbg_pc = "done"
    /\ e_pc = "raised"
    /\ Len(chat_history) = 1
    /\ dbg_result[1].error = Some("Timeout")

-----------------------------------------------------------------------------
(* batch_eval with one of its trials followed through Eval.run.  The last  *)
(* trial of the batch is the one followed: its run() is the turn loop      *)
(* modelled above, while the other trials end as in Spec.                  *)

(* The largest batch in which a trial is followed *)
MaxWatchedRuns == 2

Watched == num_runs - 1

WatchedInit ==
    /\ BatchInit
    /\ num_runs \in 1 .. MaxWatchedRuns
    /\ e_pc = "start"
    /\ turn = -1
    /\ current = "user"
    /\ response = None
    /\ chat_history = << >>
    /\ score = None
    /\ broke = FALSE
    /\ respond_calls = 0
    /\ evaluate_calls = 0
    /\ messages = << >>
    /\ exc = None
    /\ thrown = None
    /\ AuxIdle

(* core.py:128: the followed trial is inside eval_instance.run(), in the   *)
(* turn loop                                                               *)
WatchedTurn ==
    /\ phase[Watched] = "run"
    /\ \/ RunStart
       \/ LoopNext
       \/ RespondReturns("p")
       \/ RespondRaises
       \/ AppendMessage
       \/ \E b \in BOOLEAN : IsDone(b)

(* The exception that left run() reaches the except branch of core.py:130 *)
WatchedRunRaises ==
    /\ e_pc = "raised"
    /\ RunRaises(Watched)

(* The turn loop of the followed trial is over: evaluate() is entered *)
WatchedLoopEnds ==
    /\ e_pc = "evaluate"
    /\ RunLoopEnds(Watched)

(* core.py:86: evaluate() of the followed trial returns or raises *)
WatchedEvaluate ==
    /\ phase[Watched] = "evaluate"
    /\ \/ \E s \in Scores : RunEvaluateReturns(s)
       \/ RunEvaluateRaises

(* run() of the followed trial has returned its score: core.py:129 *)
WatchedReturns ==
    /\ e_pc = "done"
    /\ EvaluateReturns(Watched, score[1])

(* The exception of evaluate() reaches the except branch of core.py:130 *)
WatchedEvaluateRaises ==
    /\ e_pc = "raised"
    /\ EvaluateRaises(Watched)

WatchedNext ==
    \/ Submit
    \/ \E i \in Idx : StartTrial(i)
    \/ \E i \in Idx : FactoryReturns(i)
    \/ \E i \in Idx : FactoryRaises(i)
    \/ \E i \in Idx \ {Watched} : RunRaises(i)
    \/ \E i \in Idx \ {Watched} : RunLoopEnds(i)
    \/ \E i \in Idx \ {Watched}, s \in Scores : EvaluateReturns(i, s)
    \/ \E i \in Idx \ {Watched} : EvaluateRaises(i)
    \/ WatchedTurn
    \/ WatchedRunRaises
    \/ WatchedLoopEnds
    \/ WatchedEvaluate
    \/ WatchedReturns
    \/ WatchedEvaluateRaises
    \/ BeginCollect
    \/ \E i \in Idx : Collect(i)
    \/ EndCollect
    \/ Check
    \/ ComputeStats
    \/ SaveSkipped
    \/ SaveSucceeds
    \/ SaveRaises
    \/ Return

SpecWatched == WatchedInit /\ [][WatchedNext]_vars

TimesFailed(i) == Cardinality({k \in 1 .. Len(failed_runs) : failed_runs[k] = i})

(* C16: a failing Assistant call propagates.  Once the completion call of  *)
(* the Assistant has raised in a turn of the followed trial, run() has     *)
(* raised that same exception: no message was appended for the turn,       *)
(* evaluate() is never called and there is no score; run_single_eval       *)
(* returns the failure tuple, and once the trial is collected its index is *)
(* in failed_runs exactly once, also in the dictionary batch_eval returns. *)
C16_FailurePropagates ==
    (thrown # None /\ thrown[1].from = "assistant") =>
        /\ e_pc = "raised"
        /\ exc = thrown
        /\ Len(chat_history) = thrown[1].turn
        /\ respond_calls = Len(chat_history) + 1
        /\ evaluate_calls = 0
        /\ score = None
        /\ phase[Watched] \in {"run", "returned"}
        /\ phase[Watched] = "returned" => (ret[Watched] = FailureTuple /\ raised[Watched])
        /\ eval_score[Watched] = None
        /\ TimesFailed(Watched) = IF Watched \in collected THEN 1 ELSE 0
        /\ pc \notin {"submit", "collect"} => Watched \in collected
        /\ Len(results) <= num_runs - 1
        /\ Returned =>
              /\ Cardinality({k \in 1 .. Len(outcome.value[1].failed_runs) :
                                 outcome.value[1].failed_runs[k] = Watched}) = 1
              /\ outcome.value[1].statistics.successful_runs <= num_runs - 1

(* A batch of two has returned: the Assistant of the second trial failed   *)
(* in its first turn (the second of the trial), the first trial succeeded  *)
C16_Witness ==
    /\ Returned
    /\ num_runs = 2
    /\ thrown # None
    /\ thrown[1].from = "assistant"
    /\ thrown[1].turn = 1
    /\ Len(chat_history) = 1
    /\ outcome.value[1].failed_runs = <<1>>
    /\ Len(outcome.value[1].scores) = 1

(***************************************************************************)
(* Trials of the registered evaluations.  One factory (one evaluation, one *)
(* set of task parameters, one completion stub) is invoked once per        *)
(* instance; the instances are constructed and run interleaved, as the     *)
(* workers of a batch run them.                                            *)
(***************************************************************************)

(* The Eval instances the factory builds *)
Insts == {"a", "b", "c"}

Tasks == {"math", "tictactoe_random"}

(* Deterministic stand-ins for completion(): "solver" reads the last       *)
(* message and answers it, "five" answers 5 whatever it is shown           *)
Stubs == {"solver", "five"}

(* low and high of MathUser, scaled down *)
MathParams == [low |-> 1, high |-> 4]

Operations == <<"+", "-", "*", "/">>

(* np.random.default_rng(seed): the state of a fresh generator is a        *)
(* function of the seed alone                                              *)
RngSeed(seed) == (11 * seed + 7) % 32

(* One draw moves the generator on, whatever is drawn *)
RngNext(g) == (5 * g + 1) % 32

(* The value a generator in state g draws out of n alternatives (0-based) *)
RngPick(g, n) == (g \div 2) % n

(* A generator object shared by all instances, as a process-global one is *)
GenShared(t) == "a"

(* self.rng: every instance holds the generator its own constructor made *)
GenOf(t) == t

(* An instance the factory has not been called for yet *)
NewTrial(seed) ==
    [seed |-> seed, pc |-> "new", first |-> FALSE, problem |-> << >>,
     board |-> [c \in 1 .. 9 |-> 0], player |-> 1, current |-> "user",
     turn |-> 0, chat |-> << >>, completions |-> 0, score |-> None]

SeededInit ==
    /\ BatchIdle
    /\ EvalIdle
    /\ TimesIdle
    /\ RegistryIdle
    /\ CliIdle
    /\ DebugIdle
    /\ s_task \in Tasks
    /\ s_stub \in Stubs
    /\ gens = [t \in Insts |-> 0]
    /\ \E seeds \in [Insts -> 0 .. MaxSeed] :
          trials = [t \in Insts |-> NewTrial(seeds[t])]
    /\ game = << >>
    /\ marking = << >>
    /\ bc = << >>

seeded_frame == <<num_runs, max_workers, save_results, factory_model, trial_vars,
                  main_vars, eval_vars, TIMES, registry_vars, cli_vars, debug_vars,
                  s_task, s_stub, game, marking, bc>>

(* The generator of instance t draws: its state moves on *)
Advance(t) == gens' = [gens EXCEPT ![GenOf(t)] = RngNext(@)]

(* Eval.__init__: a fresh generator from the seed, an empty transcript *)
SConstruct(t) ==
    /\ trials[t].pc = "new"
    /\ gens' = [gens EXCEPT ![GenOf(t)] = RngSeed(trials[t].seed)]
    /\ trials' = [trials EXCEPT ![t].pc = "setup", ![t].chat = << >>]
    /\ UNCHANGED seeded_frame

(* MathUser.__init__: x, y = rng.integers(low, high, size=2), first x *)
SDrawOperand(t) ==
    /\ s_task = "math"
    /\ trials[t].pc = "setup"
    /\ Len(trials[t].problem) < 2
    /\ LET span == MathParams.high - MathParams.low
           x == MathParams.low + RngPick(gens[GenOf(t)], span)
       IN  trials' = [trials EXCEPT ![t].problem = Append(@, x)]
    /\ Advance(t)
    /\ UNCHANGED seeded_frame

(* MathUser.__init__: operation = rng.choice(["+", "-", "*", "/"]); the   *)
(* problem is "x operation y"                                             *)
SDrawOperation(t) ==
    /\ s_task = "math"
    /\ trials[t].pc = "setup"
    /\ Len(trials[t].problem) = 2
    /\ LET op == Operations[RngPick(gens[GenOf(t)], Len(Operations)) + 1]
           xy == trials[t].problem
       IN  trials' = [trials EXCEPT ![t].problem = <<xy[1], op, xy[2]>>,
                                    ![t].pc = "turn"]
    /\ Advance(t)
    /\ UNCHANGED seeded_frame

(* TicTacToeEval.__init__: llm_goes_first = rng.choice([True, False]) *)
SDrawFirst(t) ==
    /\ s_task = "tictactoe_random"
    /\ trials[t].pc = "setup"
    /\ LET llm_goes_first == RngPick(gens[GenOf(t)], 2) = 0
       IN  trials' = [trials EXCEPT ![t].first = llm_goes_first,
                                    ![t].pc = "turn"]
    /\ Advance(t)
    /\ UNCHANGED seeded_frame

(* game.possible_moves(): the free cells, in board order *)
PossibleMoves(board) == SelectSeq(<<1, 2, 3, 4, 5, 6, 7, 8, 9>>, LAMBDA c : board[c] = 0)

WinLines == {{1, 2, 3}, {4, 5, 6}, {7, 8, 9}, {1, 4, 7}, {2, 5, 8}, {3, 6, 9},
             {1, 5, 9}, {3, 5, 7}}

(* game.opponent_index *)
OpponentIndex(player) == 3 - player

(* game.lose(): the opponent of the player to move has three in a line *)
Lose(board, player) ==
    \E line \in WinLines : \A c \in line : board[c] = OpponentIndex(player)

(* game.is_over() *)
IsOver(board, player) == PossibleMoves(board) = << >> \/ Lose(board, player)

(* TicTacToe.__str__: the cells as ".", "O" (player 1), "X" (player 2)    *)
(* and who is to play                                                     *)
Render(board, player) ==
    [cells |-> [c \in 1 .. 9 |-> <<".", "O", "X">>[board[c] + 1]],
     to_play |-> IF player = 1 THEN "O" ELSE "X"]

(* eval(user.problem), rounded to two decimals, in hundredths *)
GroundTruth(problem) ==
    LET x == problem[1]
        y == problem[3]
    IN  CASE problem[2] = "+" -> 100 * (x + y)
          [] problem[2] = "-" -> 100 * (x - y)
          [] problem[2] = "*" -> 100 * (x * y)
          [] problem[2] = "/" -> (200 * x + y) \div (2 * y)

(* The reply of the stub to the messages it is sent: a function of the    *)
(* stub and of the last message alone                                     *)
StubReply(stub, task, chat) ==
    LET shown == chat[Len(chat)].content
    IN  IF stub = "five" THEN 5
        ELSE IF task = "math" THEN GroundTruth(shown) \div 100
        ELSE CHOOSE c \in 1 .. 9 :
                /\ shown.cells[c] = "."
                /\ \A d \in 1 .. (c - 1) : shown.cells[d] # "."

(* Message(role=current.role, content=response) appended by Eval.run *)
Said(r, role, content) == Append(r.chat, [role |-> role, content |-> content])

(* Faulty variant of AfterAppend: is_done() is not asked, the loop runs    *)
(* through range(max_turns)                                                *)
AfterAppendNeverDone(r, done) ==
    [r EXCEPT !.current = Other(@), !.turn = @ + 1,
              !.pc = IF r.turn + 1 = max_turns THEN "evaluate" ELSE @]

(* Faulty variant of AfterAppend: the loop runs through range(max_turns - 1) *)
AfterAppendOneLess(r, done) ==
    IF done THEN [r EXCEPT !.pc = "evaluate", !.turn = @ + 1]
    ELSE [r EXCEPT !.current = Other(@), !.turn = @ + 1,
                   !.pc = IF r.turn + 1 = max_turns - 1 THEN "evaluate" ELSE @]

(* After the append: break when the agent is done, else the other agent *)
(* is next; the loop ends with the last of range(max_turns)              *)
AfterAppend(r, done) ==
    IF done THEN [r EXCEPT !.pc = "evaluate", !.turn = @ + 1]
    ELSE [r EXCEPT !.current = Other(@), !.turn = @ + 1,
                   !.pc = IF r.turn + 1 = max_turns THEN "evaluate" ELSE @]

(* The user's turn.  math: MathUser.make_move returns the problem and is  *)
(* never done.  tictactoe: the opponent moves (rng.choice of the possible *)
(* moves) unless the LLM goes first and nothing was said yet, and returns *)
(* the board                                                              *)
SUserTurn(t) ==
    LET r == trials[t]
    IN  /\ r.pc = "turn"
        /\ r.current = "user"
        /\ r.turn < max_turns
        /\ IF s_task = "math"
           THEN /\ trials' = [trials EXCEPT ![t] =
                      AfterAppend([r EXCEPT !.chat = Said(r, "user", r.problem)], FALSE)]
                /\ UNCHANGED gens
           ELSE IF Len(r.chat) = 0 /\ r.first
           THEN /\ trials' = [trials EXCEPT ![t] =
                      AfterAppend([r EXCEPT !.chat =
                                      Said(r, "user", Render(r.board, r.player))],
                                  IsOver(r.board, r.player))]
                /\ UNCHANGED gens
           ELSE LET pm == PossibleMoves(r.board)
                    move == pm[RngPick(gens[GenOf(t)], Len(pm)) + 1]
                    board == [r.board EXCEPT ![move] = r.player]
                    player == OpponentIndex(r.player)
                IN  /\ trials' = [trials EXCEPT ![t] =
                          AfterAppend([r EXCEPT !.board = board, !.player = player,
                                                !.chat = Said(r, "user",
                                                              Render(board, player))],
                                      IsOver(board, player))]
                    /\ Advance(t)
        /\ UNCHANGED seeded_frame

(* The assistant's turn with a reply the task accepts.  math: the reply   *)
(* is the message and the assistant is done.  tictactoe: the reply is a   *)
(* possible move and is played                                            *)
SAssistantTurn(t) ==
    LET r == trials[t]
        reply == StubReply(s_stub, s_task, r.chat)
        called == [r EXCEPT !.completions = @ + 1]
    IN  /\ r.pc = "turn"
        /\ r.current = "assistant"
        /\ r.turn < max_turns
        /\ IF s_task = "math"
           THEN trials' = [trials EXCEPT ![t] =
                   AfterAppend([called EXCEPT !.chat = Said(r, "assistant", reply)], TRUE)]
           ELSE /\ reply \in Range(PossibleMoves(r.board))
                /\ LET board == [r.board EXCEPT ![reply] = r.player]
                       player == OpponentIndex(r.player)
                   IN  trials' = [trials EXCEPT ![t] =
                          AfterAppend([called EXCEPT !.board = board, !.player = player,
                                                    !.chat = Said(r, "assistant", reply)],
                                      IsOver(board, player))]
        /\ UNCHANGED <<gens, seeded_frame>>

(* tictactoe: the reply is no possible move, process_completion raises    *)
(* InvalidResponseException and the trial ends without a score            *)
SAssistantInvalid(t) ==
    LET r == trials[t]
    IN  /\ r.pc = "turn"
        /\ r.current = "assistant"
        /\ r.turn < max_turns
        /\ s_task = "tictactoe_random"
        /\ StubReply(s_stub, s_task, r.chat) \notin Range(PossibleMoves(r.board))
        /\ trials' = [trials EXCEPT ![t].pc = "raised", ![t].completions = @ + 1]
        /\ UNCHANGED <<gens, seeded_frame>>

(* MathEval.evaluate: float(pred == gt), in halves *)
MathScore(r) ==
    IF 100 * r.chat[Len(r.chat)].content = GroundTruth(r.problem) THEN 2 ELSE 0

(* Faulty variant of TicTacToeScore: the LLM is taken for the second       *)
(* player when it goes first                                               *)
TicTacToeScoreSwapped(r) ==
    LET winner == IF Lose(r.board, r.player) THEN OpponentIndex(r.player)
                  ELSE IF Lose(r.board, OpponentIndex(r.player)) THEN r.player
                  ELSE 0
        llm == IF r.first THEN 2 ELSE 1
    IN  IF winner = 0 THEN 1 ELSE IF winner = llm THEN 2 ELSE 0

(* TicTacToeEval.evaluate, in halves: the winner is looked for from the   *)
(* player to move and then from the other one; players[winner - 1] is     *)
(* None for the LLM                                                       *)
TicTacToeScore(r) ==
    LET winner == IF Lose(r.board, r.player) THEN OpponentIndex(r.player)
                  ELSE IF Lose(r.board, OpponentIndex(r.player)) THEN r.player
                  ELSE 0
        llm == IF r.first THEN 1 ELSE 2
    IN  IF winner = 0 THEN 1 ELSE IF winner = llm THEN 2 ELSE 0

(* score = self.evaluate() *)
SEvaluate(t) ==
    /\ trials[t].pc = "evaluate"
    /\ trials' = [trials EXCEPT
          ![t].score = Some(IF s_task = "math" THEN MathScore(trials[t])
                            ELSE TicTacToeScore(trials[t])),
          ![t].pc = "done"]
    /\ UNCHANGED <<gens, seeded_frame>>

SeededNext ==
    \E t \in Insts :
        \/ SConstruct(t)
        \/ SDrawOperand(t)
        \/ SDrawOperation(t)
        \/ SDrawFirst(t)
        \/ SUserTurn(t)
        \/ SAssistantTurn(t)
        \/ SAssistantInvalid(t)
        \/ SEvaluate(t)

SpecSeeded == SeededInit /\ [][SeededNext]_vars

(* What a trial has shown of itself: who moves first, the posed problem, *)
(* the messages in order, how it ended and its score                     *)
Shown(r) ==
    [first |-> r.first, problem |-> r.problem, chat |-> r.chat,
     board |-> r.board, turn |-> r.turn, pc |-> r.pc, score |-> r.score]

(* C13: two invocations of the same factory with the same seed, run       *)
(* against the same deterministic stub, show the same at every common     *)
(* position (who moves first, the problem, the messages in order, the     *)
(* generator state) and end with identical transcripts and the same       *)
(* score, however their steps interleave with each other's and with a     *)
(* third trial's                                                          *)
C13_Deterministic ==
    \A t \in Insts, u \in Insts :
        trials[t].seed = trials[u].seed =>
            /\ (trials[t].pc \in {"done", "raised"} /\ trials[u].pc \in {"done", "raised"})
                  => Shown(trials[t]) = Shown(trials[u])
            /\ (/\ trials[t].pc = trials[u].pc
                /\ trials[t].pc # "new"
                /\ trials[t].turn = trials[u].turn
                /\ Len(trials[t].problem) = Len(trials[u].problem))
                  => /\ Shown(trials[t]) = Shown(trials[u])
                     /\ gens[t] = gens[u]

(* Two trials with the same seed and a third with another seed have all   *)
(* ended on the tictactoe task: the two agree on a transcript in which    *)
(* the opponent moved at least twice, the third went differently          *)
C13_Witness ==
    /\ s_task = "tictactoe_random"
    /\ trials["a"].seed = trials["b"].seed
    /\ trials["c"].seed # trials["a"].seed
    /\ \A t \in Insts : trials[t].pc = "done"
    /\ trials["a"].chat = trials["b"].chat
    /\ Len(trials["a"].chat) >= 4
    /\ trials["a"].score = trials["b"].score
    /\ trials["c"].chat # trials["a"].chat

(* The same on the math task: one problem posed to both, one answer *)
C13_WitnessMath ==
    /\ s_task = "math"
    /\ trials["a"].seed = trials["b"].seed
    /\ trials["c"].seed # trials["a"].seed
    /\ \A t \in Insts : trials[t].pc = "done"
    /\ trials["a"].chat = trials["b"].chat
    /\ Len(trials["a"].chat) = 2
    /\ trials["a"].score = trials["b"].score
    /\ trials["c"].problem # trials["a"].problem

-----------------------------------------------------------------------------
(* Further properties of Eval.run *)

(* Once an agent has reported done the loop is left, the last message is   *)
(* that agent's and every respond() call made has its message; an agent    *)
(* about to respond is not the author of the last message                  *)
C24_Left ==
    /\ broke =>
          /\ e_pc \in {"evaluate", "done", "raised"}
          /\ chat_history # << >>
          /\ chat_history[Len(chat_history)].role = RoleOf(current)
          /\ respond_calls = Len(chat_history)
    /\ e_pc = "respond" =>
          /\ ~broke
          /\ chat_history # << >> => chat_history[Len(chat_history)].role # RoleOf(current)

(* After the report no respond() is called and no message is appended *)
C24_Step == broke => (respond_calls' = respond_calls /\ chat_history' = chat_history)

(* C24: early termination on done.  As soon as the agent that just acted   *)
(* reports is_done() true, run makes no further respond call on either     *)
(* agent and the transcript's last message stays the one of the agent that *)
(* reported done; when the agent reports not done, the next turn is taken  *)
(* by the other agent.                                                     *)
C24_EarlyTermination == [] C24_Left /\ [][C24_Step]_vars

(* The user reported done after its second turn: three messages, three     *)
(* respond calls, the run evaluated                                        *)
C24_Witness ==
    /\ e_pc = "done"
    /\ broke
    /\ Len(chat_history) = 3
    /\ chat_history[3].role = "user"
    /\ current = "user"
    /\ respond_calls = 3

-----------------------------------------------------------------------------
(* Further properties of batch_eval *)

(* C27: accounting invariant of a batch.  When batch_eval returns, every   *)
(* trial index 0..num_runs-1 is accounted for exactly once, by one score   *)
(* in scores or by one entry in failed_runs: successful_runs + failed_runs *)
(* = total_runs = num_runs, failed_runs has no duplicates, and             *)
(* success_rate = successful_runs / num_runs.                              *)
C27_Accounting ==
    Returned =>
        LET v == outcome.value[1]
            st == v.statistics
        IN  /\ Range(v.failed_runs) \subseteq Idx
            /\ Cardinality(Range(v.failed_runs)) = Len(v.failed_runs)
            /\ Range(v.failed_runs) = Raising
            /\ Len(v.scores) = Cardinality(Idx \ Range(v.failed_runs))
            /\ Idx \ Range(v.failed_runs) = Succeeded
            /\ st.successful_runs = Len(v.scores)
            /\ st.failed_runs = Len(v.failed_runs)
            /\ st.successful_runs + st.failed_runs = st.total_runs
            /\ st.total_runs = num_runs
            /\ RatEq(st.success_rate, <<st.successful_runs, num_runs>>)

(* A returned batch of three in which the second trial failed: two scores, *)
(* one failed run, a success rate of 2/3                                   *)
C27_Witness ==
    /\ Returned
    /\ num_runs = 3
    /\ outcome.value[1].failed_runs = <<1>>
    /\ Len(outcome.value[1].scores) = 2
    /\ outcome.value[1].statistics.total_runs = 3
    /\ RatEq(outcome.value[1].statistics.success_rate, <<2, 3>>)

(* The batch ended with the ValueError of a batch without a success *)
NoSuccessError ==
    /\ pc = "raised"
    /\ outcome.kind = "ValueError"
    /\ outcome.msg[1].num_runs = num_runs
    /\ outcome.msg[1].all_failed
    /\ outcome.value = None

(* C28: empty batch.  batch_eval with num_runs = 0 runs no trial and       *)
(* raises the same 'no evaluations completed successfully' ValueError as a *)
(* batch in which every trial failed, without a division by zero (the      *)
(* success rate is 0 and no statistic is computed) and without any         *)
(* persistence call.                                                       *)
C28_EmptyBatch ==
    /\ num_runs = 0 =>
          /\ pc \in {"submit", "collect", "check", "raised"}
          /\ submitted = 0
          /\ factory_calls = << >>
          /\ results = << >>
          /\ failed_runs = << >>
          /\ SuccessRate(Len(results), num_runs) = <<0, 1>>
          /\ stats = None
          /\ save_calls = 0
          /\ saved = << >>
          /\ pc = "raised" => (NoSuccessError /\ outcome.msg[1].failed_runs = None)
    /\ (num_runs > 0 /\ pc \notin {"submit", "collect", "check"} /\ Raising = Idx) =>
          /\ NoSuccessError
          /\ outcome.msg[1].failed_runs # None
          /\ stats = None
          /\ save_calls = 0

(* The empty batch has raised, although saving was asked for *)
C28_Witness ==
    /\ num_runs = 0
    /\ save_results
    /\ NoSuccessError
    /\ save_calls = 0

-----------------------------------------------------------------------------
(* Properties of the math trials *)

-----------------------------------------------------------------------------
(* One tic-tac-toe trial inside run_single_eval, against every sequence of *)
(* opponent moves and every reply of the model.  The transcript is held by *)
(* its length (one message per turn) and its first message.                *)

Digits == <<"0", "1", "2", "3", "4", "5", "6", "7", "8", "9">>

(* str.strip(): the text without the white space at its two ends *)
Strip(s) ==
    LET Whitespace == {" ", "\n", "\t"}
        Inner == {k \in 1 .. Len(s) : s[k] \notin Whitespace}
    IN  IF Inner = {} THEN << >>
        ELSE SubSeq(s, CHOOSE k \in Inner : \A j \in Inner : k <= j,
                       CHOOSE k \in Inner : \A j \in Inner : j <= k)

(* The number a text of decimal digits denotes *)
RECURSIVE NatVal(_)
NatVal(s) ==
    IF s = << >> THEN 0
    ELSE 10 * NatVal(SubSeq(s, 1, Len(s) - 1))
         + (CHOOSE d \in 0 .. 9 : Digits[d + 1] = s[Len(s)])

(* int(text) of a stripped text: an optional sign and decimal digits, or   *)
(* ValueError (None)                                                       *)
IntOf(text) ==
    LET signed == text # << >> /\ text[1] \in {"+", "-"}
        d == IF signed THEN Tail(text) ELSE text
    IN  IF d # << >> /\ \A k \in 1 .. Len(d) : d[k] \in Range(Digits)
        THEN Some(IF signed /\ text[1] = "-" THEN 0 - NatVal(d) ELSE NatVal(d))
        ELSE None

(* What completion() can return to the LLM player: a cell, a cell with     *)
(* white space around it, a number that is no cell, text, nothing          *)
Replies ==
    {<<Digits[k]>> : k \in 1 .. 10}
        \cup {<<" ", "5", "\n">>, <<"1", "0">>, <<"x">>, <<"5", ".", "0">>, << >>}

(* TicTacToe([None, opp]) when the LLM goes first, TicTacToe([opp, None])  *)
(* otherwise: the player objects by player index, "llm" for None           *)
Players(first) == IF first THEN <<"llm", "opp">> ELSE <<"opp", "llm">>

NewGame(first) ==
    [pc |-> "turn", first |-> first, board |-> [c \in 1 .. 9 |-> 0], player |-> 1,
     current |-> "user", turn |-> 0, opening |-> None, reply |-> None,
     asked |-> {}, applied |-> {}, raised |-> None, ret |-> None, score |-> None]

GameInit ==
    /\ BatchIdle
    /\ EvalIdle
    /\ TimesIdle
    /\ RegistryIdle
    /\ CliIdle
    /\ DebugIdle
    /\ s_task = "none"
    /\ s_stub = "none"
    /\ gens = << >>
    /\ trials = << >>
    /\ marking = << >>
    /\ bc = << >>
    /\ game \in {NewGame(first) : first \in BOOLEAN}

game_frame == <<num_runs, max_workers, save_results, factory_model, trial_vars,
                main_vars, eval_vars, TIMES, registry_vars, cli_vars, debug_vars,
                s_task, s_stub, gens, trials, marking, bc>>

(* The first message of the transcript, once there is one *)
Opening(r, content) == IF r.turn = 0 THEN Some(content) ELSE r.opening

(* Faulty variant of ShowsOnly: the opponent moves on every turn, also on  *)
(* the first one of a game the LLM is to open                              *)
ShowsOnlyNever(r) == FALSE

(* make_move: on the very first turn, when the LLM goes first, the         *)
(* opponent only returns the board                                         *)
ShowsOnly(r) == r.turn = 0 /\ r.first

(* The user's first turn when the LLM goes first: str(self.game) *)
GShowsBoard ==
    /\ game.pc = "turn"
    /\ game.current = "user"
    /\ game.turn < max_turns
    /\ ShowsOnly(game)
    /\ game' = AfterAppend([game EXCEPT
                               !.opening = Opening(game, Render(game.board, game.player))],
                           IsOver(game.board, game.player))
    /\ UNCHANGED game_frame

(* The user's turn otherwise: game.get_move() asks the player object of    *)
(* the current player for a move (None has no ask_move: AttributeError);   *)
(* the random opponent answers any possible move, which is played          *)
GOpponentMoves(move) ==
    /\ game.pc = "turn"
    /\ game.current = "user"
    /\ game.turn < max_turns
    /\ ~ShowsOnly(game)
    /\ move \in Range(PossibleMoves(game.board))
    /\ LET object == Players(game.first)[game.player]
           asked == [game EXCEPT !.asked = @ \cup {object}]
           board == [game.board EXCEPT ![move] = game.player]
           player == OpponentIndex(game.player)
       IN  IF object = "llm"
           THEN game' = [asked EXCEPT !.pc = "raised",
                                      !.raised = Some([error |-> "AttributeError"])]
           ELSE game' = AfterAppend([asked EXCEPT
                                       !.board = board, !.player = player,
                                       !.opening = Opening(game, Render(board, player))],
                                    IsOver(board, player))
    /\ UNCHANGED game_frame

(* Faulty variant of ValidMove: any cell of the board is accepted, free or not *)
ValidMoveAnyCell(board, resp) ==
    /\ IntOf(Strip(resp)) # None
    /\ IntOf(Strip(resp))[1] \in 1 .. 9

(* process_completion: int(response.strip()) is among the possible moves *)
ValidMove(board, resp) ==
    /\ IntOf(Strip(resp)) # None
    /\ IntOf(Strip(resp))[1] \in Range(PossibleMoves(board))

(* The assistant's turn: completion() returns response; process_completion *)
(* plays it, or raises InvalidResponseException before anything is played  *)
GReply(resp) ==
    /\ game.pc = "turn"
    /\ game.current = "assistant"
    /\ game.turn < max_turns
    /\ IF ValidMove(game.board, resp)
       THEN LET move == IntOf(Strip(resp))[1]
                board == [game.board EXCEPT ![move] = game.player]
                player == OpponentIndex(game.player)
            IN  game' = AfterAppend([game EXCEPT
                                        !.reply = Some(resp),
                                        !.applied = @ \cup {Players(game.first)[game.player]},
                                        !.board = board, !.player = player],
                                    IsOver(board, player))
       ELSE game' = [game EXCEPT !.reply = Some(resp), !.pc = "raised",
                                 !.raised = Some([error |-> "InvalidResponseException"])]
    /\ UNCHANGED game_frame

(* The assistant's turn: completion() raises x, a transport error *)
GCompletionFails(x) ==
    /\ game.pc = "turn"
    /\ game.current = "assistant"
    /\ game.turn < max_turns
    /\ game' = [game EXCEPT !.pc = "raised", !.raised = Some([error |-> x])]
    /\ UNCHANGED game_frame

(* score = self.evaluate(); run_single_eval returns the success tuple *)
GEvaluate ==
    /\ game.pc = "evaluate"
    /\ LET s == TicTacToeScore(game)
       IN  game' = [game EXCEPT !.score = Some(s), !.pc = "done",
                       !.ret = Some([SuccessTuple(s) EXCEPT !.e_name = "tictactoe_random"])]
    /\ UNCHANGED game_frame

(* except Exception in run_single_eval: whatever was raised, the failure   *)
(* tuple is returned                                                       *)
GCaught ==
    /\ game.pc = "raised"
    /\ game' = [game EXCEPT !.pc = "failed", !.ret = Some(FailureTuple)]
    /\ UNCHANGED game_frame

GameNext ==
    \/ GShowsBoard
    \/ \E move \in 1 .. 9 : GOpponentMoves(move)
    \/ \E resp \in Replies : GReply(resp)
    \/ \E x \in Exceptions : GCompletionFails(x)
    \/ GEvaluate
    \/ GCaught

SpecGame == GameInit /\ [][GameNext]_vars

-----------------------------------------------------------------------------
(* Properties of the tic-tac-toe trial *)

(* The mark of the LLM: player 1 when it goes first, player 2 otherwise *)
LlmMark == IF game.first THEN 1 ELSE 2

OpponentMark == IF game.first THEN 2 ELSE 1

HasLine(mark) == \E line \in WinLines : \A c \in line : game.board[c] = mark

Full == \A c \in 1 .. 9 : game.board[c] # 0

Marks(mark) == Cardinality({c \in 1 .. 9 : game.board[c] = mark})

(* C23: tic-tac-toe terminal scoring.  For every finished game, whichever  *)
(* side moved first and whichever side made the last move, evaluate        *)
(* returns 1.0 when the LLM's mark has three in a row, 0.0 when the        *)
(* opponent's mark has three in a row, and 0.5 when the board is full with *)
(* no winner.                                                              *)
C23_TerminalScoring ==
    game.pc = "done" =>
        /\ HasLine(LlmMark) => game.score = Some(2)
        /\ HasLine(OpponentMark) => game.score = Some(0)
        /\ (Full /\ ~HasLine(LlmMark) /\ ~HasLine(OpponentMark)) => game.score = Some(1)
        /\ ~(HasLine(LlmMark) /\ HasLine(OpponentMark))
        /\ game.ret = Some([score |-> game.score[1], m_name |-> factory_model,
                            e_name |-> "tictactoe_random", success |-> TRUE])

(* The LLM moved second and made the last move, which won the game *)
C23_Witness ==
    /\ game.pc = "done"
    /\ ~game.first
    /\ HasLine(2)
    /\ Marks(1) = Marks(2)
    /\ game.score = Some(2)

(* The opponent moved second and made the last move, which won the game *)
C23_WitnessLoss ==
    /\ game.pc = "done"
    /\ game.first
    /\ HasLine(2)
    /\ game.score = Some(0)

(* A full board without a line, for either side moving first *)
C23_WitnessDraw ==
    /\ game.pc = "done"
    /\ ~game.first
    /\ Full
    /\ ~HasLine(1)
    /\ ~HasLine(2)
    /\ game.score = Some(1)

(* The reply names a free cell of the board *)
NamesFreeCell(board, reply) ==
    LET n == IntOf(Strip(reply))
    IN  /\ n # None
        /\ n[1] \in 1 .. 9
        /\ board[n[1]] = 0

InvalidRaised ==
    game.raised # None /\ game.raised[1].error = "InvalidResponseException"

(* A trial that raised has no score, and once run_single_eval has caught   *)
(* the exception its result is the failure tuple, whatever was raised      *)
C26_Failed ==
    /\ InvalidRaised =>
          /\ game.reply # None
          /\ ~NamesFreeCell(game.board, game.reply[1])
    /\ game.raised # None =>
          /\ game.pc \in {"raised", "failed"}
          /\ game.score = None
          /\ game.pc = "failed" => game.ret = Some(FailureTuple)
          /\ game.pc = "raised" => game.ret = None
    /\ game.raised = None => game.pc \notin {"raised", "failed"}

(* A reply that names no free cell raises and leaves the board, the player *)
(* to move and the transcript as they were; one that does is played        *)
C26_Step ==
    (/\ game.pc = "turn"
     /\ game.current = "assistant"
     /\ game' # game
     /\ game'.raised = None \/ game'.raised[1].error = "InvalidResponseException") =>
        IF NamesFreeCell(game.board, game'.reply[1])
        THEN /\ game'.raised = None
             /\ game'.board = [game.board EXCEPT ![IntOf(Strip(game'.reply[1]))[1]] = game.player]
             /\ game'.player # game.player
        ELSE /\ game'.pc = "raised"
             /\ game'.raised = Some([error |-> "InvalidResponseException"])
             /\ game'.board = game.board
             /\ game'.player = game.player
             /\ game'.turn = game.turn
             /\ game'.score = None

(* C26: invalid tic-tac-toe move.  When the model's reply is not an        *)
(* integer, or is an integer that is not among the game's possible moves,  *)
(* the LLM player raises InvalidResponseException and the board and the    *)
(* player to move are left unchanged; run_single_eval turns it into the    *)
(* failure tuple exactly as it does a transport error, and the trial has   *)
(* no score (it is not scored as a loss).                                  *)
C26_InvalidMove == [] C26_Failed /\ [][C26_Step]_vars

(* The reply "x" to a board with marks on it: the trial failed *)
C26_Witness ==
    /\ game.pc = "failed"
    /\ InvalidRaised
    /\ game.reply = Some(<<"x">>)
    /\ Marks(1) + Marks(2) >= 2
    /\ game.ret = Some(FailureTuple)
    /\ game.score = None

(* The reply "5" when cell 5 is taken: the trial failed *)
C26_WitnessTaken ==
    /\ game.pc = "failed"
    /\ InvalidRaised
    /\ game.reply = Some(<<"5">>)
    /\ game.board[5] # 0
    /\ game.ret = Some(FailureTuple)

(* A transport error ends in the same tuple *)
C26_WitnessTransport ==
    /\ game.pc = "failed"
    /\ game.raised = Some([error |-> "Timeout"])
    /\ game.ret = Some(FailureTuple)

(* C29: tic-tac-toe turn consistency.  For either choice of who goes       *)
(* first, whenever the opponent agent asks the game for a move the current *)
(* player is the opponent's player object, and whenever the LLM's move is  *)
(* applied the current player is the LLM's slot; the two sides' marks      *)
(* alternate, and when the LLM goes first the opponent's first message     *)
(* shows the empty board with no move made.                                *)
C29_TurnConsistency ==
    /\ game.asked \subseteq {"opp"}
    /\ game.applied \subseteq {"llm"}
    /\ game.raised # None => game.raised[1].error # "AttributeError"
    /\ Marks(1) - Marks(2) \in {0, 1}
    /\ game.player = (IF Marks(1) = Marks(2) THEN 1 ELSE 2)
    /\ Marks(LlmMark) + Marks(OpponentMark) = game.turn - (IF game.first /\ game.turn > 0 THEN 1 ELSE 0)
    /\ game.pc = "turn" =>
          /\ (game.current = "user" /\ game.turn > 0) => Players(game.first)[game.player] = "opp"
          /\ (game.current = "user" /\ game.turn = 0) => (game.first \/ Players(game.first)[game.player] = "opp")
          /\ game.current = "assistant" => Players(game.first)[game.player] = "llm"
    /\ game.opening # None =>
          LET shown == game.opening[1].cells
              marked == {c \in 1 .. 9 : shown[c] # "."}
          IN  IF game.first
              THEN marked = {} /\ game.opening[1].to_play = "O"
              ELSE Cardinality(marked) = 1 /\ game.opening[1].to_play = "X"
                   /\ \A c \in marked : shown[c] = "O"

(* The LLM opened a game that was played to its end: the opponent's first  *)
(* message showed the empty board                                          *)
C29_Witness ==
    /\ game.first
    /\ game.pc = "done"
    /\ game.asked = {"opp"}
    /\ game.applied = {"llm"}
    /\ game.opening = Some(Render([c \in 1 .. 9 |-> 0], 1))
    /\ Marks(1) = 5

(* The opponent opened a game that was played to its end *)
C29_WitnessSecond ==
    /\ ~game.first
    /\ game.pc = "done"
    /\ game.asked = {"opp"}
    /\ game.applied = {"llm"}
    /\ Marks(1) = 5

(* C30: every tic-tac-toe trial in which no reply is invalid reaches a     *)
(* finished game (a win or a full board) within max_turns = 10 turns, for  *)
(* both choices of who goes first: while the game is unfinished a turn is  *)
(* left, evaluate() is never applied to an unfinished game, and the draw   *)
(* score 0.5 is returned only for a full board with no winner.             *)
C30_FinishedWithinMaxTurns ==
    /\ game.turn <= max_turns
    /\ game.pc = "turn" =>
          /\ game.turn < max_turns
          /\ ~Full
          /\ ~HasLine(1)
          /\ ~HasLine(2)
    /\ game.pc \in {"evaluate", "done"} =>
          /\ game.raised = None
          /\ Full \/ HasLine(1) \/ HasLine(2)
    /\ (game.pc = "done" /\ game.score = Some(1)) =>
          /\ Full
          /\ ~HasLine(1)
          /\ ~HasLine(2)

(* The LLM opened a game that ended in a draw on the last turn there is *)
C30_Witness ==
    /\ game.first
    /\ game.pc = "done"
    /\ game.turn = max_turns
    /\ Full
    /\ game.score = Some(1)

(* The opponent opened a game that filled the board, one turn to spare *)
C30_WitnessSecond ==
    /\ ~game.first
    /\ game.pc = "done"
    /\ game.turn = max_turns - 1
    /\ Full

-----------------------------------------------------------------------------
(* MathEval.evaluate (math.py:60-77) applied to a posed problem and the    *)
(* last message of the transcript                                          *)

(* Operands a problem can have: positive integers, as the registered       *)
(* low = 100 makes them                                                    *)
Operands == {1, 2, 3, 123, 456}

(* f"{x} {operation} {y}" by its parts *)
MathProblems ==
    {<<x, Operations[k], y>> : x \in Operands, k \in 1 .. Len(Operations), y \in Operands}

(* Last messages: numbers with and without decimals, sign and white space, *)
(* text that is no number.  No decimal has a 5 as its third place, where   *)
(* round() depends on the binary value                                     *)
MathReplies ==
    {<<"5", "7", "9">>,
     <<"5", "8", "0">>,
     <<" ", "5", "7", "9", "\n">>,
     <<"5", "7", "9", ".", "0">>,
     <<"5", "7", "9", ".", "0", "0", "4">>,
     <<"5", "7", "8", ".", "9", "9", "6">>,
     <<"+", "5", "7", "9">>,
     <<"2">>,
     <<"2", ".", "0", "0", "4">>,
     <<"1", ".", "9", "9", "6">>,
     <<"0", ".", "3", "3">>,
     <<"0", ".", "3", "3", "3">>,
     <<"0", ".", "3">>,
     <<"-", "3", "3", "3">>,
     <<"-", "3", "3", "3", ".", "0", "0", "1">>,
     <<"5", "6", "0", "8", "8">>,
     <<"a", "b", "c">>,
     <<>>,
     <<"5", " ", "7", "9">>,
     <<"n", "a", "n">>}

(* float(text) of a stripped text, as the fraction <<n, d>>: an optional   *)
(* sign, digits with an optional decimal point, or "nan"; ValueError       *)
(* (None) for other text                                                   *)
FloatOf(text) ==
    LET signed == text # << >> /\ text[1] \in {"+", "-"}
        u == IF signed THEN Tail(text) ELSE text
        dots == {k \in 1 .. Len(u) : u[k] = "."}
        digits == SelectSeq(u, LAMBDA c : c # ".")
        places == IF dots = {} THEN 0 ELSE Len(u) - (CHOOSE k \in dots : TRUE)
        n == NatVal(digits)
    IN  IF u = <<"n", "a", "n">> THEN Some([nan |-> TRUE, n |-> 0, d |-> 1])
        ELSE IF /\ digits # << >>
                /\ Cardinality(dots) <= 1
                /\ \A k \in 1 .. Len(digits) : digits[k] \in Range(Digits)
        THEN Some([nan |-> FALSE,
                   n |-> IF signed /\ text[1] = "-" THEN 0 - n ELSE n,
                   d |-> 10 ^ places])
        ELSE None

(* round(n / d, 2) in hundredths, for a fraction that is no tie *)
Round2(n, d) ==
    IF n >= 0 THEN (200 * n + d) \div (2 * d)
    ELSE 0 - ((200 * (0 - n) + d) \div (2 * d))

(* Faulty variant of MathEvaluate: the prediction is compared as it was    *)
(* written, without rounding it                                            *)
MathEvaluateExact(problem, reply) ==
    LET parsed == FloatOf(Strip(reply))
    IN  IF /\ parsed # None
           /\ ~parsed[1].nan
           /\ (100 * parsed[1].n) % parsed[1].d = 0
           /\ (100 * parsed[1].n) \div parsed[1].d = GroundTruth(problem)
        THEN 2 ELSE 0

(* evaluate(), in halves: pred = round(float(response.strip()), 2), None   *)
(* when float() raises ValueError; float(pred == gt)                       *)
MathEvaluate(problem, reply) ==
    LET parsed == FloatOf(Strip(reply))
    IN  IF /\ parsed # None
           /\ ~parsed[1].nan
           /\ Round2(parsed[1].n, parsed[1].d) = GroundTruth(problem)
        THEN 2 ELSE 0

MarkingInit ==
    /\ BatchIdle
    /\ EvalIdle
    /\ TimesIdle
    /\ RegistryIdle
    /\ CliIdle
    /\ DebugIdle
    /\ s_task = "none"
    /\ s_stub = "none"
    /\ gens = << >>
    /\ trials = << >>
    /\ game = << >>
    /\ bc = << >>
    /\ \E problem \in MathProblems, reply \in MathReplies :
          marking = [problem |-> problem, reply |-> reply, pc |-> "run", score |-> None]

(* score = self.evaluate() *)
Mark ==
    /\ marking.pc = "run"
    /\ marking' = [marking EXCEPT
                      !.score = Some(MathEvaluate(marking.problem, marking.reply)),
                      !.pc = "done"]
    /\ UNCHANGED <<num_runs, max_workers, save_results, factory_model, trial_vars,
                   main_vars, eval_vars, TIMES, registry_vars, cli_vars, debug_vars,
                   s_task, s_stub, gens, trials, game, bc>>

MarkingNext == Mark

SpecMarking == MarkingInit /\ [][MarkingNext]_vars

(* The exact value of the problem, as the fraction <<n, d>> *)
ValueOf(problem) ==
    CASE problem[2] = "+" -> <<problem[1] + problem[3], 1>>
      [] problem[2] = "-" -> <<problem[1] - problem[3], 1>>
      [] problem[2] = "*" -> <<problem[1] * problem[3], 1>>
      [] problem[2] = "/" -> <<problem[1], problem[3]>>

Abs(x) == IF x < 0 THEN 0 - x ELSE x

(* The last message is a number: the fraction it denotes, or None *)
NumberSaid ==
    LET parsed == FloatOf(Strip(marking.reply))
    IN  IF parsed # None /\ ~parsed[1].nan THEN Some(<<parsed[1].n, parsed[1].d>>) ELSE None

(* The fraction q is exactly h hundredths *)
SameAs(q, h) == (100 * q[1]) % q[2] = 0 /\ (100 * q[1]) \div q[2] = h

(* The fraction q lies within half a hundredth of h hundredths *)
Near(q, h) ==
    LET whole == h \div 100
        over == q[1] - whole * q[2]
    IN  /\ Abs(over) <= 2 * q[2]
        /\ 2 * Abs(100 * over - (h - 100 * whole) * q[2]) < q[2]

(* C22 as stated: evaluate returns 1.0 when the last message is a number   *)
(* equal to the problem's value (the ground truth rounded to two           *)
(* decimals), and 0.0 when it is a different number or a non-numeric       *)
(* string.                                                                 *)
C22_MathScoring ==
    marking.pc = "done" =>
        LET gt == GroundTruth(marking.problem)
        IN  IF NumberSaid # None /\ SameAs(NumberSaid[1], gt)
            THEN marking.score = Some(2)
            ELSE marking.score = Some(0)

(* C22, amended: evaluate returns 1.0 when the last message is a number    *)
(* that, rounded to two decimals, equals the problem's value rounded to    *)
(* two decimals (it lies within half a hundredth of it), and 0.0 when it   *)
(* is any other number or a non-numeric string; a non-numeric reply never  *)
(* raises.  For "123 + 456" the ground truth is 579, "579" scores 1.0 and  *)
(* "580" scores 0.0.                                                       *)
C22_MathScoringAmended ==
    /\ marking.pc = "done" =>
          LET gt == GroundTruth(marking.problem)
              v == ValueOf(marking.problem)
          IN  /\ Near(v, gt)
              /\ marking.score \in {Some(0), Some(2)}
              /\ (marking.score = Some(2)) <=>
                    (NumberSaid # None /\ Near(NumberSaid[1], gt))
    /\ (marking.pc = "done" /\ marking.problem = <<123, "+", 456>>) =>
          /\ GroundTruth(marking.problem) = 57900
          /\ marking.reply = <<"5", "7", "9">> => marking.score = Some(2)
          /\ marking.reply = <<"5", "8", "0">> => marking.score = Some(0)
          /\ marking.reply = <<"a", "b", "c">> => marking.score = Some(0)

(* "579.004" was the reply to "123 + 456": a number that is not 579 is     *)
(* scored 1.0                                                              *)
C22_Witness ==
    /\ marking.pc = "done"
    /\ marking.problem = <<123, "+", 456>>
    /\ marking.reply = <<"5", "7", "9", ".", "0", "0", "4">>
    /\ marking.score = Some(2)

(* "0.333" was the reply to "1 / 3" *)
C22_WitnessThird ==
    /\ marking.pc = "done"
    /\ marking.problem = <<1, "/", 3>>
    /\ marking.reply = <<"0", ".", "3", "3", "3">>
    /\ marking.score = Some(2)

(* "580" and "abc" were scored 0.0 *)
C22_WitnessWrong ==
    /\ marking.pc = "done"
    /\ marking.problem = <<123, "+", 456>>
    /\ marking.reply \in {<<"5", "8", "0">>, <<"a", "b", "c">>}
    /\ marking.score = Some(0)

-----------------------------------------------------------------------------
(* batch_completion (util/llm.py:77-88): the completions of a list of      *)
(* message lists, one after the other                                      *)

(* The longest list of message lists *)
MaxBatch == 3

(* The message lists there are *)
MessageLists == {"m1", "m2"}

(* What a completion() that returns can return *)
Texts == {"p", ""}

BcInit ==
    /\ BatchIdle
    /\ EvalIdle
    /\ TimesIdle
    /\ RegistryIdle
    /\ CliIdle
    /\ DebugIdle
    /\ s_task = "none"
    /\ s_stub = "none"
    /\ gens = << >>
    /\ trials = << >>
    /\ game = << >>
    /\ marking = << >>
    /\ \E messages_in \in SeqsUpTo(MessageLists, MaxBatch) :
          bc = [messages |-> messages_in, pc |-> "loop", results |-> << >>,
                sent |-> << >>, outcomes |-> << >>]

bc_frame == <<num_runs, max_workers, save_results, factory_model, trial_vars,
              main_vars, eval_vars, TIMES, registry_vars, cli_vars, debug_vars,
              s_task, s_stub, gens, trials, game, marking>>

(* The message list the for statement is at *)
MessageList == bc.messages[Len(bc.sent) + 1]

(* result = completion(model, message_list) returns; results.append(result) *)
BcCompletes(text) ==
    /\ bc.pc = "loop"
    /\ Len(bc.sent) < Len(bc.messages)
    /\ bc' = [bc EXCEPT !.sent = Append(@, MessageList),
                        !.outcomes = Append(@, [raised |-> None, text |-> Some(text)]),
                        !.results = Append(@, text)]
    /\ UNCHANGED bc_frame

(* Faulty variant of BcFails: the failed completion leaves no entry *)
BcFailsSkips(x) ==
    /\ bc.pc = "loop"
    /\ Len(bc.sent) < Len(bc.messages)
    /\ bc' = [bc EXCEPT !.sent = Append(@, MessageList),
                        !.outcomes = Append(@, [raised |-> Some(x), text |-> None])]
    /\ UNCHANGED bc_frame

(* completion(model, message_list) raises x: except Exception,             *)
(* results.append("")                                                      *)
BcFails(x) ==
    /\ bc.pc = "loop"
    /\ Len(bc.sent) < Len(bc.messages)
    /\ bc' = [bc EXCEPT !.sent = Append(@, MessageList),
                        !.outcomes = Append(@, [raised |-> Some(x), text |-> None]),
                        !.results = Append(@, "")]
    /\ UNCHANGED bc_frame

(* The list is used up: return results *)
BcReturns ==
    /\ bc.pc = "loop"
    /\ Len(bc.sent) = Len(bc.messages)
    /\ bc' = [bc EXCEPT !.pc = "returned"]
    /\ UNCHANGED bc_frame

BcNext ==
    \/ \E text \in Texts : BcCompletes(text)
    \/ \E x \in Exceptions : BcFails(x)
    \/ BcReturns

SpecBc == BcInit /\ [][BcNext]_vars

(* Every completion asked for so far has its entry, in order: the text it  *)
(* returned, or the empty string if it raised                              *)
C21_Entries ==
    /\ bc.pc \in {"loop", "returned"}
    /\ Len(bc.results) = Len(bc.outcomes)
    /\ Len(bc.sent) = Len(bc.outcomes)
    /\ Len(bc.sent) <= Len(bc.messages)
    /\ \A k \in 1 .. Len(bc.sent) : bc.sent[k] = bc.messages[k]
    /\ \A k \in 1 .. Len(bc.results) :
          bc.results[k] = IF bc.outcomes[k].raised # None THEN ""
                          ELSE bc.outcomes[k].text[1]
    /\ bc.pc = "returned" => Len(bc.results) = Len(bc.messages)

(* No step changes an entry there is *)
C21_Step == \A k \in 1 .. Len(bc.results) : bc'.results[k] = bc.results[k]

(* C21: batch_completion masks individual failures.  For every list of     *)
(* message sequences it returns a list of the same length in the same      *)
(* order, where entry i is the completion of sequence i, or the empty      *)
(* string if that completion raised; a failure on one sequence never       *)
(* aborts the batch nor changes the entries of the other sequences.        *)
C21_MasksFailures == [] C21_Entries /\ [][C21_Step]_vars

(* Three message lists, the completion of the second raised: the first and *)
(* the third have their text, the second the empty string                  *)
C21_Witness ==
    /\ bc.pc = "returned"
    /\ bc.messages = <<"m1", "m2", "m1">>
    /\ bc.outcomes[1].raised = None
    /\ bc.outcomes[2].raised # None
    /\ bc.outcomes[3].raised = None
    /\ bc.results = <<"p", "", "p">>

=============================================================================
